---- MODULE Spec2Model ----
(***************************************************************************)
(* A model of the Stride core: the markdown structural parser              *)
(* (core/markdown_parser.py), the sprint state resolver                    *)
(* (core/sprint_manager.py, models.py), the analytics cache                *)
(* (core/analytics_cache.py) and the get_metrics orchestration             *)
(* (core/analytics.py, core/sprint_parser.py, core/metrics_calculator.py). *)
(*                                                                         *)
(* Python's None and Optional values are modelled as sequences of length   *)
(* 0 or 1: None is <<>>, a present value x is <<x>>.  A dict is a function *)
(* whose DOMAIN is the set of its keys; the empty dict is <<>>.            *)
(***************************************************************************)
EXTENDS Integers, Sequences, FiniteSets, TLC

VARIABLES
    \* ---- MarkdownParser.parse_strides, one run of its while loop
    lines,            \* content.split("\n")
    i,                \* the loop index (0-based, as in the source)
    current_stride,   \* None or the StrideInfo being filled
    current_section,  \* None, "purpose", "tasks" or "completion"
    strides,          \* the result list
    pcParse,          \* "scan" while the loop runs, "done" after the return
    iters,            \* number of loop iterations executed so far
    \* ---- SprintProgress.current_stride
    progress,         \* a SprintProgress (its strides list)
    pcProgress,       \* "built" or "read"
    currentStrideRet, \* the value the property returned
    \* ---- AnalyticsCache.is_cache_valid
    cv_cache_data,    \* self.cache_data
    cv_current,       \* the current_checksums argument
    pcValid,          \* "loaded" or "returned"
    cv_ret,           \* the returned bool
    \* ---- the project directory and the calls of the core's interface
    fs,               \* .stride/sprints: folder name -> its directory state
    cacheFile,        \* .stride/analytics.json
    now,              \* datetime.now(), counted in cache writes
    nchanges,         \* changes made to the sprint folders so far
    call,             \* the last event: a call of the core or a change
    ret,              \* the value the last call returned
    fresh,            \* get_metrics saved the cache file and nothing changed since
    lastRead,         \* per folder: the files present at its last read, and the status read
    \* ---- SprintManager._determine_status on one sprint directory
    st_files,         \* the files present in the directory
    pcStatus,         \* "given" or "returned"
    st_ret,           \* the returned SprintStatus
    \* ---- MetricsCalculator, one method call on a list of SprintData
    mc_sprints,       \* self.sprints
    mc_call,          \* "none", or the method called
    mc_ret,           \* what it returned, or the exception it raised
    \* ---- MarkdownParser, one call of a static method on a document
    md_lines,         \* content.split("\n")
    md_call,          \* the method called and its other arguments
    md_ret,           \* what it returned
    \* ---- SprintManager.list_sprints, step by step, beside another process
    rc_fs,            \* .stride/sprints: folder name -> its directory state
    rc_pc,            \* the statement list_sprints is at
    rc_items,         \* the entries iterdir() has still to yield
    rc_item,          \* None, or the Sprint get_sprint is building
    rc_sprints,       \* the sprints list
    rc_ret,           \* what list_sprints returned, or the exception raised
    \* ---- MarkdownParser, a sequence of calls of its parsing methods
    ps_defaults,      \* the default-argument objects of the two constructors
    ps_first,         \* None, or the first call: method, text and result
    ps_again,         \* None, or what the last repetition of the first call returned
    ps_calls,         \* number of calls made so far
    ps_other,         \* a call on another text or of another method followed the first
    \* ---- SprintManager.get_sprint on one sprint directory with its files
    sm_dir,           \* None, or the directory: file name -> its lines
    sm_call,          \* the call made and its arguments
    sm_ret,           \* what it returned
    \* ---- get_metrics, statement by statement, beside other processes
    gm_fs,            \* the set of sprint folders under .stride/sprints
    gm_cache,         \* None, or the record in .stride/analytics.json
    gm_proc           \* per invocation: the statement it is at and its locals

parseVars == <<lines, i, current_stride, current_section, strides, pcParse, iters>>
progressVars == <<progress, pcProgress, currentStrideRet>>
validVars == <<cv_cache_data, cv_current, pcValid, cv_ret>>
coreVars == <<fs, cacheFile, now, nchanges, call, ret, fresh, lastRead>>
statusVars == <<st_files, pcStatus, st_ret>>
metricsVars == <<mc_sprints, mc_call, mc_ret>>
markdownVars == <<md_lines, md_call, md_ret>>
raceVars == <<rc_fs, rc_pc, rc_items, rc_item, rc_sprints, rc_ret>>
sessionVars == <<ps_defaults, ps_first, ps_again, ps_calls, ps_other>>
managerVars == <<sm_dir, sm_call, sm_ret>>
gmVars == <<gm_fs, gm_cache, gm_proc>>
vars == <<parseVars, progressVars, validVars, statusVars, metricsVars,
          markdownVars, raceVars, sessionVars, managerVars, gmVars, coreVars>>

None == <<>>
Some(x) == <<x>>

\* Python's dict.get(key, default) on a dict modelled as a function.
DictGet(d, k, default) == IF k \in DOMAIN d THEN d[k] ELSE default

\* Python's dict.get(key): the value, or None for a missing key.
DictGetOpt(d, k) == IF k \in DOMAIN d THEN Some(d[k]) ELSE None

\* A value json.loads gives that is not a dict: a list ("array") of size
\* items, a str ("string") of size characters, or the number size.  Dicts
\* are functions, and none has the key json_type.
JsonValue(type, size) == [json_type |-> type, size |-> size]

\* isinstance(v, dict)
IsDict(v) == "json_type" \notin DOMAIN v

\* bool(v) of a value json.loads gave: false for {}, [], "" and 0.
Truthy(v) ==
    IF IsDict(v) THEN v # <<>> ELSE v.size # 0

\* All sequences over S of length 0..n.
SeqUpTo(S, n) == UNION {[1..k -> S] : k \in 0..n}

\* The elements of S as a sequence in increasing order of rank[x] (the
\* ranks are distinct).
RECURSIVE SortedBy(_, _)
SortedBy(S, rank) ==
    IF S = {} THEN <<>>
    ELSE LET first == CHOOSE x \in S : \A y \in S : rank[x] <= rank[y]
         IN <<first>> \o SortedBy(S \ {first}, rank)

\* A quotient a / b of the source, kept as the pair of its terms.
Ratio(num, den) == [num |-> num, den |-> den]

\* (a / b * 100) if b > 0 else 0
Percent(a, b) == IF b > 0 THEN Ratio(100 * a, b) ELSE Ratio(0, 1)

\* The set of dicts with keys among K and values in V.
Dicts(K, V) == UNION {[S -> V] : S \in SUBSET K}

(***************************************************************************)
(* Bounds of the model.                                                    *)
(***************************************************************************)
MaxLen == 3        \* lines of a plan.md given to parse_strides
MaxIters == 5      \* loop iterations of parse_strides that are followed
MaxStrideNo == 2   \* stride numbers 1..MaxStrideNo
MaxStrides == 3    \* strides in a SprintProgress
MaxTasks == 1      \* tasks per stride in a SprintProgress
NumIds == 2        \* sprint ids in a checksum map
NumSprints == 1    \* folders sprint-001 .. sprint-00<NumSprints> that may exist
MaxMtime == 2      \* modification times 1..MaxMtime
MaxChanges == 3    \* changes made to the sprint folders in one behaviour
MaxNow == 2        \* cache writes in one behaviour
MaxTrendSprints == 4   \* sprints in a list given to the trends
MaxDone == 2           \* completed tasks of a sprint given to the trends
MaxMetricSprints == 2  \* sprints in a list given to the task metrics
MaxSprintTasks == 3    \* tasks of a sprint given to the task metrics
NumTimestamps == 3     \* timestamps T1.. of the log headings
MaxLogLines == 4       \* lines of an implementation.md given to the log parser
MaxLimit == 2          \* limit arguments 0..MaxLimit
MaxSectionLines == 4   \* lines of a document given to extract_section
MaxLevel == 3          \* heading levels 2..MaxLevel asked of extract_section
NumRaceDirs == 2       \* sprint directories list_sprints may find
MaxCoreChanges == 1    \* changes of the sprint folders between the calls of SpecCore
MaxTextLen == 3        \* lines of a text given to a parsing method in SpecSession
MaxCalls == 3          \* calls of the parsing methods in SpecSession
MaxPlanLen == 4        \* lines of a plan in SpecStrides
MaxPlanStrides == 2    \* strides of a plan.md in SpecManager
MaxProposalLen == 4    \* lines of a proposal.md in SpecManager
MaxEntries == 6        \* log entries of an implementation.md in SpecManager
MaxDurationSprints == 3 \* sprints given to calculate_duration_metrics
NumGmFolders == 2      \* sprint folders that come and go while get_metrics runs
NumProcs == 2          \* concurrent invocations of get_metrics

\* Sprint folder names of the form scan_sprint_folders looks for.
SprintFolderNames ==
    <<"sprint-001", "sprint-002", "sprint-003", "sprint-004", "sprint-005",
      "sprint-006">>

(***************************************************************************)
(* MarkdownParser.parse_strides.                                           *)
(*                                                                         *)
(* A line is described by what the parser's tests see in it: cls tells     *)
(* which of the regular expressions and startswith tests it passes, number *)
(* is the stride number of a matching heading, checked the mark of a       *)
(* checkbox, text the captured or stripped text.                           *)
(***************************************************************************)
Ln(cls, number, checked, text) ==
    [cls |-> cls, number |-> number, checked |-> checked, text |-> text]

\* "### **Stride <n>: Setup**"
StrideHeadingLines == {Ln("stride_heading", n, FALSE, "Setup") : n \in 1..MaxStrideNo}

PlanLines ==
    StrideHeadingLines \cup
    { Ln("purpose_marker", 0, FALSE, "**Purpose:**"),
      Ln("tasks_marker", 0, FALSE, "**Tasks:**"),
      Ln("completion_marker", 0, FALSE, "**Completion Definition:**"),
      Ln("h3_with_stride_word", 0, FALSE, "### Stride 2 notes"),
      Ln("h3_other", 0, FALSE, "### Notes"),
      Ln("rule", 0, FALSE, "---"),
      Ln("checkbox", 0, TRUE, "write tests"),     \* "- [x] write tests"
      Ln("checkbox", 0, FALSE, "ship"),           \* "- [ ] ship"
      Ln("text", 0, FALSE, "Build the core"),
      Ln("blank", 0, FALSE, ""),
      Ln("bracket", 0, FALSE, "[Describe the purpose]") }

\* STRIDE_HEADING_PATTERN.match(line): r"###\s+\*\*Stride\s+(\d+):\s+(.+?)\*\*"
STRIDE_HEADING_PATTERN(line) == line.cls = "stride_heading"

\* CHECKBOX_PATTERN.match(line): r"^\s*-\s+\[([ xX])\]\s+(.+)$"
CHECKBOX_PATTERN(line) == line.cls = "checkbox"

\* line.startswith("###")
StartsWithH3(line) == line.cls \in {"stride_heading", "h3_with_stride_word", "h3_other"}

\* "Stride" in line
ContainsStride(line) == line.cls \in {"stride_heading", "h3_with_stride_word"}

\* line.startswith("---")
StartsWithRule(line) == line.cls = "rule"

\* line.strip() and not line.startswith("[")
IsFreeText(line) == line.cls \notin {"blank", "bracket"}

StrideInfo(number, name) ==
    [number |-> number, name |-> name, purpose |-> <<>>, tasks |-> <<>>,
     completion_definition |-> <<>>]

CheckboxItem(text, checked, line_number) ==
    [text |-> text, checked |-> checked, line_number |-> line_number]

\* Lines 182-193: the line is added to the active subsection of the stride.
AddContent(stride, section, line, idx) ==
    IF section = Some("purpose") /\ IsFreeText(line)
    THEN [stride EXCEPT !.purpose = Append(@, line.text)]
    ELSE IF section = Some("tasks")
    THEN IF CHECKBOX_PATTERN(line)
         THEN [stride EXCEPT !.tasks =
                  Append(@, CheckboxItem(line.text, line.checked, idx + 1))]
         ELSE stride
    ELSE IF section = Some("completion") /\ IsFreeText(line)
    THEN [stride EXCEPT !.completion_definition = Append(@, line.text)]
    ELSE stride

\* Were the reset of line 180 left out, the subsection would stay open.
section_kept_open(section, line) == section

\* The section after the marker tests of lines 163-180, for a line that is
\* none of the three markers.
SectionAfter(section, line) ==
    IF StartsWithH3(line) \/ StartsWithRule(line) THEN None ELSE section

\* One iteration of `while i < len(lines)` (lines 143-195).
ParseStep ==
    /\ pcParse = "scan"
    /\ i < Len(lines)
    /\ iters < MaxIters
    /\ iters' = iters + 1
    /\ LET line == lines[i + 1] IN
       IF STRIDE_HEADING_PATTERN(line)
       THEN /\ strides' = IF current_stride # None
                          THEN Append(strides, current_stride[1])
                          ELSE strides
            /\ current_stride' = Some(StrideInfo(line.number, line.text))
            /\ current_section' = None
            /\ i' = i + 1
       ELSE IF current_stride = None
       THEN /\ i' = i + 1
            /\ UNCHANGED <<strides, current_stride, current_section>>
       ELSE IF line.cls = "purpose_marker"
       THEN /\ current_section' = Some("purpose")
            /\ i' = i + 1
            /\ UNCHANGED <<strides, current_stride>>
       ELSE IF line.cls = "tasks_marker"
       THEN /\ current_section' = Some("tasks")
            /\ i' = i + 1
            /\ UNCHANGED <<strides, current_stride>>
       ELSE IF line.cls = "completion_marker"
       THEN /\ current_section' = Some("completion")
            /\ i' = i + 1
            /\ UNCHANGED <<strides, current_stride>>
       ELSE IF StartsWithH3(line) /\ ContainsStride(line)
       THEN \* line 179: `continue` with i not incremented
            UNCHANGED <<strides, current_stride, current_section, i>>
       ELSE /\ current_section' = SectionAfter(current_section, line)
            /\ current_stride' =
                  Some(AddContent(current_stride[1],
                                  SectionAfter(current_section, line), line, i))
            /\ i' = i + 1
            /\ UNCHANGED strides
    /\ UNCHANGED <<lines, pcParse>>

\* Loop exit and lines 197-201: the last stride is appended, the list returned.
ParseReturn ==
    /\ pcParse = "scan"
    /\ i >= Len(lines)
    /\ strides' = IF current_stride # None
                  THEN Append(strides, current_stride[1])
                  ELSE strides
    /\ pcParse' = "done"
    /\ UNCHANGED <<lines, i, current_stride, current_section, iters>>

InitParse ==
    /\ lines \in SeqUpTo(PlanLines, MaxLen)
    /\ i = 0
    /\ current_stride = None
    /\ current_section = None
    /\ strides = <<>>
    /\ pcParse = "scan"
    /\ iters = 0

\* The lines of the plans on which the subsections of a stride are followed.
StridePlanLines ==
    StrideHeadingLines \cup
    { Ln("purpose_marker", 0, FALSE, "**Purpose:**"),
      Ln("tasks_marker", 0, FALSE, "**Tasks:**"),
      Ln("h3_with_stride_word", 0, FALSE, "### Stride 2 notes"),
      Ln("h3_other", 0, FALSE, "### Notes"),
      Ln("rule", 0, FALSE, "---"),
      Ln("checkbox", 0, TRUE, "write tests"),
      Ln("text", 0, FALSE, "Build the core") }

InitStrides ==
    /\ lines \in SeqUpTo(StridePlanLines, MaxPlanLen)
    /\ i = 0
    /\ current_stride = None
    /\ current_section = None
    /\ strides = <<>>
    /\ pcParse = "scan"
    /\ iters = 0

IdleParse ==
    /\ lines = <<>>
    /\ i = 0
    /\ current_stride = None
    /\ current_section = None
    /\ strides = <<>>
    /\ pcParse = "done"
    /\ iters = 0

(***************************************************************************)
(* MarkdownParser.parse_implementation_logs.                               *)
(*                                                                         *)
(* As for parse_strides a line is described by the tests it passes: cls,   *)
(* the timestamp and stride name a matching heading captures, and text,    *)
(* the line with its dash removed and stripped.                            *)
(***************************************************************************)
LogLn(cls, timestamp, stride_name, text) ==
    [cls |-> cls, timestamp |-> timestamp, stride_name |-> stride_name,
     text |-> text]

Timestamps == <<"T1", "T2", "T3", "T4">>

\* "## [Timestamp: T1] Stride: Setup"
TimestampHeadingLines ==
    {LogLn("timestamp_heading", Timestamps[k], "Setup", "") : k \in 1..NumTimestamps}

LogLines ==
    TimestampHeadingLines \cup
    { LogLn("tasks_heading", "", "", "### Tasks Addressed"),
      LogLn("notes_heading", "", "", "### Notes"),
      LogLn("bullet", "", "", "wrote the parser"),    \* "- wrote the parser"
      LogLn("placeholder", "", "", "[List tasks]"),   \* "- [List tasks]"
      LogLn("rule", "", "", "---") }

\* TIMESTAMP_PATTERN.match(line):
\* r"##\s+\[Timestamp:\s+([^\]]+)\]\s+Stride:\s+(.+)"
TIMESTAMP_PATTERN(line) == line.cls = "timestamp_heading"

\* The section a subsection heading opens (lines 239-250), or None.
SubsectionOf(line) ==
    IF line.cls = "tasks_heading" THEN Some("tasks")
    ELSE IF line.cls = "decisions_heading" THEN Some("decisions")
    ELSE IF line.cls = "notes_heading" THEN Some("notes")
    ELSE IF line.cls = "changes_heading" THEN Some("changes")
    ELSE None

\* line.strip() and line.startswith("-"), with item = line.strip()[1:].strip()
\* not starting with "[" and not empty (lines 256-258).
IsLogItem(line) == line.cls = "bullet"

ImplementationLogEntry(timestamp, stride_name) ==
    [timestamp |-> timestamp, stride_name |-> stride_name,
     tasks_addressed |-> <<>>, decisions |-> <<>>, notes |-> <<>>,
     changes |-> <<>>]

\* Lines 259-266: the item is appended to the list of the active section.
AddItem(entry, section, item) ==
    IF section = "tasks" THEN [entry EXCEPT !.tasks_addressed = Append(@, item)]
    ELSE IF section = "decisions" THEN [entry EXCEPT !.decisions = Append(@, item)]
    ELSE IF section = "notes" THEN [entry EXCEPT !.notes = Append(@, item)]
    ELSE IF section = "changes" THEN [entry EXCEPT !.changes = Append(@, item)]
    ELSE entry

\* One iteration of `for line in lines` (lines 222-266) on the loop's state.
LogStep(st, line) ==
    IF TIMESTAMP_PATTERN(line)
    THEN [entries |-> IF st.current_entry # None
                      THEN Append(st.entries, st.current_entry[1])
                      ELSE st.entries,
          current_entry |-> Some(ImplementationLogEntry(line.timestamp,
                                                        line.stride_name)),
          current_section |-> None]
    ELSE IF st.current_entry = None THEN st
    ELSE IF SubsectionOf(line) # None
    THEN [st EXCEPT !.current_section = SubsectionOf(line)]
    ELSE IF StartsWithRule(line) THEN [st EXCEPT !.current_section = None]
    ELSE IF st.current_section # None /\ IsLogItem(line)
    THEN [st EXCEPT !.current_entry =
             Some(AddItem(st.current_entry[1], st.current_section[1], line.text))]
    ELSE st

\* The state of the loop after the first k lines.
RECURSIVE LogScan(_, _)
LogScan(lns, k) ==
    IF k = 0
    THEN [entries |-> <<>>, current_entry |-> None, current_section |-> None]
    ELSE LogStep(LogScan(lns, k - 1), lns[k])

\* list.reverse()
Reverse(seq) == [k \in 1..Len(seq) |-> seq[Len(seq) + 1 - k]]

\* seq[:n] for n >= 0
Slice(seq, n) == SubSeq(seq, 1, IF n < Len(seq) THEN n ELSE Len(seq))

\* Lines 268-277 on the entries in document order, with the reversal left out.
log_result_in_file_order(entries, limit) ==
    IF limit # None /\ limit[1] # 0 THEN Slice(entries, limit[1]) ELSE entries

\* Lines 268-277 on the entries in document order: reversed, and cut to
\* limit when `if limit:` holds, which it does not for None and for 0.
log_result(entries, limit) ==
    IF limit # None /\ limit[1] # 0
    THEN Slice(Reverse(entries), limit[1])
    ELSE Reverse(entries)

\* MarkdownParser.parse_implementation_logs(content, limit)
parse_implementation_logs(lns, limit) ==
    LET st == LogScan(lns, Len(lns))
        entries == IF st.current_entry # None
                   THEN Append(st.entries, st.current_entry[1])
                   ELSE st.entries
    IN log_result(entries, limit)

\* The limit arguments: None, and 0..MaxLimit.
Limits == {None} \cup {Some(n) : n \in 0..MaxLimit}

InitLogs ==
    /\ md_lines \in SeqUpTo(LogLines, MaxLogLines)
    /\ md_call = [op |-> "none"]
    /\ md_ret = None

IdleMarkdown ==
    /\ md_lines = <<>>
    /\ md_call = [op |-> "idle"]
    /\ md_ret = None

ParseImplementationLogs ==
    /\ md_call.op = "none"
    /\ \E limit \in Limits :
          /\ md_call' = [op |-> "parse_implementation_logs", limit |-> limit]
          /\ md_ret' = parse_implementation_logs(md_lines, limit)
    /\ UNCHANGED md_lines

(***************************************************************************)
(* MarkdownParser.extract_section.                                         *)
(*                                                                         *)
(* A line is its leading whitespace (indent), the number of "#" it begins  *)
(* with after that (hashes; a heading has one space after them) and the    *)
(* rest of it (text).  A line without hashes is plain text, "" is blank.   *)
(***************************************************************************)
MdLn(indent, hashes, text) == [indent |-> indent, hashes |-> hashes, text |-> text]

BlankLine == MdLn(FALSE, 0, "")

SectionLines ==
    { MdLn(FALSE, 2, "Goals"),              \* "## Goals"
      MdLn(FALSE, 2, "Goals and scope"),    \* "## Goals and scope"
      MdLn(FALSE, 2, "Notes"),              \* "## Notes"
      MdLn(FALSE, 3, "Goals"),              \* "### Goals"
      MdLn(TRUE, 2, "Notes"),               \* "  ## Notes"
      MdLn(FALSE, 0, "ship it"),
      BlankLine }

\* text.startswith(heading), for the headings asked for
StartsWithText(text, heading) ==
    \/ text = heading
    \/ heading = "Goals" /\ text = "Goals and scope"
    \/ heading = "Acceptance Criteria" /\ text = "Acceptance Criteria Notes"

\* line.strip().startswith(target), target = "#" * level + " " + heading
StartsWithTarget(line, heading, level) ==
    line.hashes = level /\ StartsWithText(line.text, heading)

\* line.startswith(heading_prefix + " ") and
\* not line.startswith(heading_prefix + "#")
StartsWithLevelPrefix(line, level) == ~line.indent /\ line.hashes = level

\* One iteration of `for line in lines` (lines 110-122); done is set by break.
SectionStep(st, line, heading, level) ==
    IF st.done THEN st
    ELSE IF StartsWithTarget(line, heading, level)
    THEN [st EXCEPT !.in_section = TRUE]
    ELSE IF st.in_section
    THEN IF StartsWithLevelPrefix(line, level)
         THEN [st EXCEPT !.done = TRUE]
         ELSE [st EXCEPT !.section_lines = Append(@, line)]
    ELSE st

RECURSIVE SectionScan(_, _, _, _)
SectionScan(lns, k, heading, level) ==
    IF k = 0
    THEN [in_section |-> FALSE, section_lines |-> <<>>, done |-> FALSE]
    ELSE SectionStep(SectionScan(lns, k - 1, heading, level), lns[k],
                     heading, level)

\* "\n".join(section_lines).strip(): the blank lines at both ends and the
\* indent of the first remaining line go; "" is the empty sequence.
Strip(lns) ==
    LET full == {k \in 1..Len(lns) : lns[k] # BlankLine} IN
    IF full = {} THEN <<>>
    ELSE LET first == CHOOSE k \in full : \A m \in full : k <= m
             last == CHOOSE k \in full : \A m \in full : m <= k
             kept == SubSeq(lns, first, last)
         IN [kept EXCEPT ![1].indent = FALSE]

\* MarkdownParser.extract_section(content, heading, level)
extract_section(lns, heading, level) ==
    Strip(SectionScan(lns, Len(lns), heading, level).section_lines)

InitSection ==
    /\ md_lines \in SeqUpTo(SectionLines, MaxSectionLines)
    /\ md_call = [op |-> "none"]
    /\ md_ret = None

ExtractSection ==
    /\ md_call.op = "none"
    /\ \E heading \in {"Goals", "Notes"}, level \in 2..MaxLevel :
          /\ md_call' = [op |-> "extract_section", heading |-> heading,
                         level |-> level]
          /\ md_ret' = extract_section(md_lines, heading, level)
    /\ UNCHANGED md_lines

(***************************************************************************)
(* MarkdownParser.parse_checkboxes, group_checkboxes_by_category and       *)
(* parse_strides as functions of the lines of a document.                  *)
(***************************************************************************)
\* Lines 81-87 of parse_checkboxes on the first k lines.
RECURSIVE CheckboxScan(_, _)
CheckboxScan(lns, k) ==
    IF k = 0 THEN <<>>
    ELSE IF CHECKBOX_PATTERN(lns[k])
    THEN Append(CheckboxScan(lns, k - 1),
                CheckboxItem(lns[k].text, lns[k].checked, k))
    ELSE CheckboxScan(lns, k - 1)

\* MarkdownParser.parse_checkboxes(content)
parse_checkboxes(lns) == CheckboxScan(lns, Len(lns))

\* HEADING_PATTERN.match(line) with group(1) in ["###", "####"]
IsCategoryHeading(line) == StartsWithH3(line)

\* heading_match.group(2).strip(), kept as the pair that tells headings apart
HeadingText(line) == <<line.number, line.text>>

General == <<0, "General">>

\* One iteration of the loop of group_checkboxes_by_category (lines 336-356).
GroupStep(st, line, line_num) ==
    LET category == IF IsCategoryHeading(line) THEN HeadingText(line)
                    ELSE st.current_category
        opened == IF IsCategoryHeading(line) /\ category \notin DOMAIN st.groups
                  THEN st.groups @@ (category :> <<>>)
                  ELSE st.groups
        item == CheckboxItem(line.text, line.checked, line_num)
    IN [current_category |-> category,
        groups |-> IF ~CHECKBOX_PATTERN(line) THEN opened
                   ELSE IF category \in DOMAIN opened
                   THEN [opened EXCEPT ![category] = Append(@, item)]
                   ELSE opened @@ (category :> <<item>>)]

RECURSIVE GroupScan(_, _)
GroupScan(lns, k) ==
    IF k = 0 THEN [current_category |-> General, groups |-> <<>>]
    ELSE GroupStep(GroupScan(lns, k - 1), lns[k], k)

\* MarkdownParser.group_checkboxes_by_category(content)
group_checkboxes_by_category(lns) == GroupScan(lns, Len(lns)).groups

\* One iteration of the while loop of parse_strides (lines 143-195) on the
\* loop's state; idx is the 0-based index i.  stuck is set where the
\* iteration ends without `i += 1` (line 179): the loop stays on that line.
StrideStep(st, line, idx) ==
    IF st.stuck THEN st
    ELSE IF STRIDE_HEADING_PATTERN(line)
    THEN [st EXCEPT !.strides = IF st.current_stride # None
                                THEN Append(@, st.current_stride[1]) ELSE @,
                    !.current_stride = Some(StrideInfo(line.number, line.text)),
                    !.current_section = None]
    ELSE IF st.current_stride = None THEN st
    ELSE IF line.cls = "purpose_marker"
    THEN [st EXCEPT !.current_section = Some("purpose")]
    ELSE IF line.cls = "tasks_marker"
    THEN [st EXCEPT !.current_section = Some("tasks")]
    ELSE IF line.cls = "completion_marker"
    THEN [st EXCEPT !.current_section = Some("completion")]
    ELSE IF StartsWithH3(line) /\ ContainsStride(line)
    THEN [st EXCEPT !.stuck = TRUE]
    ELSE [st EXCEPT !.current_section = SectionAfter(@, line),
                    !.current_stride =
                        Some(AddContent(@[1], SectionAfter(st.current_section, line),
                                        line, idx))]

RECURSIVE StrideScan(_, _)
StrideScan(lns, k) ==
    IF k = 0
    THEN [strides |-> <<>>, current_stride |-> None, current_section |-> None,
          stuck |-> FALSE]
    ELSE StrideStep(StrideScan(lns, k - 1), lns[k], k - 1)

\* MarkdownParser.parse_strides(content): returns is FALSE when the loop
\* never ends, value is the list returned otherwise.
parse_strides(lns) ==
    LET st == StrideScan(lns, Len(lns)) IN
    [returns |-> ~st.stuck,
     value |-> IF st.current_stride # None
               THEN Append(st.strides, st.current_stride[1])
               ELSE st.strides]

(***************************************************************************)
(* A sequence of calls of the parsing methods in one process.              *)
(*                                                                         *)
(* What outlives a call is the default-argument objects of the             *)
(* constructors StrideInfo.__init__ and ImplementationLogEntry.__init__,   *)
(* one per list parameter; the lists parse_checkboxes and                  *)
(* group_checkboxes_by_category fill are locals made by the call.  A       *)
(* default object is None, or Some(list) for a list object.                *)
(***************************************************************************)
ListAttributes == {"tasks", "tasks_addressed", "decisions", "notes", "changes"}

\* Were the default a list the constructor kept (`tasks=[]`,
\* `self.tasks = tasks`), the appends of the scan would go to the default.
list_attribute_of_mutable_default(default, appended) ==
    LET shared == (IF default = None THEN <<>> ELSE default[1]) \o appended IN
    [attr |-> shared, default |-> Some(shared)]

\* `self.tasks = tasks or []` (lines 34, 52-55) for a parameter left at its
\* default, then the appends of the scan: a default that is None or empty
\* gives a list made by this call, and the default is left as it is.
list_attribute(default, appended) ==
    IF default = None \/ default[1] = <<>>
    THEN [attr |-> appended, default |-> default]
    ELSE [attr |-> default[1] \o appended, default |-> Some(default[1] \o appended)]

\* The objects of a result are constructed and filled in document order:
\* parsed[k] holds what the scan appends to the lists of the k-th object.
RECURSIVE Construct(_, _, _)
Construct(parsed, k, defaults) ==
    IF k > Len(parsed) THEN [value |-> <<>>, defaults |-> defaults]
    ELSE LET lists == DOMAIN parsed[k] \cap ListAttributes
             made == [f \in lists |-> list_attribute(defaults[f], parsed[k][f])]
             object == [f \in DOMAIN parsed[k] |->
                           IF f \in lists THEN made[f].attr ELSE parsed[k][f]]
             rest == Construct(parsed, k + 1,
                               [f \in ListAttributes |->
                                   IF f \in lists THEN made[f].default
                                   ELSE defaults[f]])
         IN [value |-> <<object>> \o rest.value, defaults |-> rest.defaults]

ParserMethods ==
    {"parse_checkboxes", "parse_strides", "parse_implementation_logs",
     "group_checkboxes_by_category"}

\* The lines of the plans and of the logs the calls are made on.
SessionPlanLines ==
    { Ln("stride_heading", 1, FALSE, "Setup"),
      Ln("tasks_marker", 0, FALSE, "**Tasks:**"),
      Ln("h3_other", 0, FALSE, "### Notes"),
      Ln("checkbox", 0, TRUE, "write tests") }

SessionLogLines ==
    { LogLn("timestamp_heading", Timestamps[1], "Setup", ""),
      LogLn("notes_heading", "", "", "### Notes"),
      LogLn("bullet", "", "", "wrote the parser") }

SessionTexts(method) ==
    IF method = "parse_implementation_logs"
    THEN SeqUpTo(SessionLogLines, MaxTextLen)
    ELSE SeqUpTo(SessionPlanLines, MaxTextLen)

\* One call: what it returns and the default objects after it.
parser_call(method, text, defaults) ==
    IF method = "parse_checkboxes"
    THEN [value |-> parse_checkboxes(text), defaults |-> defaults]
    ELSE IF method = "group_checkboxes_by_category"
    THEN [value |-> group_checkboxes_by_category(text), defaults |-> defaults]
    ELSE IF method = "parse_strides"
    THEN Construct(parse_strides(text).value, 1, defaults)
    ELSE LET made == Construct(Reverse(parse_implementation_logs(text, None)),
                               1, defaults)
         IN [value |-> Reverse(made.value), defaults |-> made.defaults]

InitSession ==
    /\ ps_defaults = [f \in ListAttributes |-> None]
    /\ ps_first = None
    /\ ps_again = None
    /\ ps_calls = 0
    /\ ps_other = FALSE

IdleSession ==
    /\ ps_defaults = [f \in ListAttributes |-> None]
    /\ ps_first = None
    /\ ps_again = None
    /\ ps_calls = MaxCalls
    /\ ps_other = FALSE

\* A call of one of the four methods on a text.  The first call is kept
\* with its result, and so is the result of a later call of the same method
\* on the same text; of the other calls what they leave behind is kept.
ParserCall(method, text) ==
    /\ ps_calls < MaxCalls
    /\ LET out == parser_call(method, text, ps_defaults)
           repeats == /\ ps_first # None
                      /\ method = ps_first[1].method
                      /\ text = ps_first[1].text
       IN /\ ps_defaults' = out.defaults
          /\ ps_first' = IF ps_first = None
                         THEN Some([method |-> method, text |-> text,
                                    value |-> out.value])
                         ELSE ps_first
          /\ ps_again' = IF repeats THEN Some(out.value) ELSE ps_again
          /\ ps_other' = (ps_other \/ (ps_first # None /\ ~repeats))
    /\ ps_calls' = ps_calls + 1

(***************************************************************************)
(* SprintProgress.current_stride (models.py).                              *)
(*                                                                         *)
(* progress.strides is the list _parse_plan_strides builds from            *)
(* parse_strides' result, one StrideTask per StrideInfo in the same order. *)
(* A task is kept as its checked flag.                                     *)
(***************************************************************************)
StrideTask(stride_number, tasks) == [stride_number |-> stride_number, tasks |-> tasks]

\* StrideTask.total_tasks
total_tasks(stride) == Len(stride.tasks)

\* StrideTask.completed_tasks
completed_tasks(stride) == Cardinality({k \in 1..Len(stride.tasks) : stride.tasks[k]})

\* A plausible slip: the loop keeps the last incomplete stride, not the first.
current_stride_last(p) ==
    LET open == {k \in 1..Len(p.strides) :
                    completed_tasks(p.strides[k]) < total_tasks(p.strides[k])}
    IN IF open = {} THEN None
       ELSE Some(p.strides[CHOOSE k \in open : \A m \in open : m <= k])

\* Were a stride without tasks taken as not yet complete, it would be
\* returned as the current stride.
current_stride_or_empty(p) ==
    LET open == {k \in 1..Len(p.strides) :
                    completed_tasks(p.strides[k]) < total_tasks(p.strides[k])
                        \/ total_tasks(p.strides[k]) = 0}
    IN IF open = {} THEN None
       ELSE Some(p.strides[CHOOSE k \in open : \A m \in open : k <= m])

\* SprintProgress.current_stride: the first stride of the list, in list
\* order, with completed_tasks < total_tasks.
current_stride_of(p) ==
    LET open == {k \in 1..Len(p.strides) :
                    completed_tasks(p.strides[k]) < total_tasks(p.strides[k])}
    IN IF open = {} THEN None
       ELSE Some(p.strides[CHOOSE k \in open : \A m \in open : k <= m])

\* sum(stride.total_tasks for stride in strides), or of completed_tasks, over
\* the first k strides (sprint_manager.py lines 117-118).
RECURSIVE SumStrides(_, _, _)
SumStrides(strides_list, k, completed_only) ==
    IF k = 0 THEN 0
    ELSE SumStrides(strides_list, k - 1, completed_only)
            + (IF completed_only THEN completed_tasks(strides_list[k])
               ELSE total_tasks(strides_list[k]))

\* MarkdownParser.calculate_completion(checkboxes)
calculate_completion(checkboxes) ==
    LET total == Len(checkboxes)
        completed == Cardinality({k \in 1..total : checkboxes[k].checked})
    IN [completed |-> completed, total |-> total,
        percentage |-> Percent(completed, total)]

\* Lines 116-132 of _calculate_progress: the SprintProgress made of the
\* strides of plan.md and of the acceptance criteria of proposal.md.
sprint_progress(strides_list, acceptance) ==
    LET sum_total == SumStrides(strides_list, Len(strides_list), FALSE)
        sum_completed == SumStrides(strides_list, Len(strides_list), TRUE)
        ac == calculate_completion(acceptance)
    IN [total_tasks |-> sum_total,
        completed_tasks |-> sum_completed,
        completion_percentage |-> Percent(sum_completed, sum_total),
        strides |-> strides_list,
        acceptance_criteria_total |-> ac.total,
        acceptance_criteria_completed |-> ac.completed,
        acceptance_criteria_percentage |-> ac.percentage]

StrideTasks ==
    {StrideTask(n, t) : n \in 1..MaxStrideNo, t \in SeqUpTo(BOOLEAN, MaxTasks)}

InitProgress ==
    /\ progress \in {sprint_progress(s, <<>>) : s \in SeqUpTo(StrideTasks, MaxStrides)}
    /\ pcProgress = "built"
    /\ currentStrideRet = None

IdleProgress ==
    /\ progress = sprint_progress(<<>>, <<>>)
    /\ pcProgress = "read"
    /\ currentStrideRet = None

\* A read of the current_stride property.
ReadCurrentStride ==
    /\ pcProgress = "built"
    /\ currentStrideRet' = current_stride_of(progress)
    /\ pcProgress' = "read"
    /\ UNCHANGED progress

(***************************************************************************)
(* AnalyticsCache.is_cache_valid (analytics_cache.py).                     *)
(***************************************************************************)
Checksums == {"md5-a", "md5-b"}

\* The first NumIds sprint ids.
IdsUsed == {SprintFolderNames[k] : k \in 1..NumIds}

\* A plausible slip: the count comparison of lines 78-80 is left out.
is_cache_valid_no_count(cache_data, current_checksums) ==
    IF cache_data = <<>> THEN FALSE
    ELSE LET cached_checksums == DictGet(cache_data, "sprint_checksums", <<>>)
         IN \A sprint_id \in DOMAIN current_checksums :
               DictGetOpt(cached_checksums, sprint_id)
                  = Some(current_checksums[sprint_id])

\* AnalyticsCache.is_cache_valid; cached_checksums.get(sprint_id) is None
\* for a missing id.
is_cache_valid(cache_data, current_checksums) ==
    IF ~Truthy(cache_data) THEN FALSE
    ELSE LET cached_checksums == DictGet(cache_data, "sprint_checksums", <<>>)
         IN IF Cardinality(DOMAIN cached_checksums)
                  # Cardinality(DOMAIN current_checksums)
            THEN FALSE
            ELSE \A sprint_id \in DOMAIN current_checksums :
                    DictGetOpt(cached_checksums, sprint_id)
                       = Some(current_checksums[sprint_id])

\* The cache_data values is_cache_valid is tried on: no cache, a record
\* without the sprint_checksums key, and records with every checksum map.
ValidCacheData ==
    {<<>>, [sprint_count |-> 0]} \cup
    {[sprint_count |-> Cardinality(DOMAIN m), sprint_checksums |-> m] :
        m \in Dicts(IdsUsed, Checksums)}

InitValid ==
    /\ cv_cache_data \in ValidCacheData
    /\ cv_current \in Dicts(IdsUsed, Checksums)
    /\ pcValid = "loaded"
    /\ cv_ret = FALSE

IdleValid ==
    /\ cv_cache_data = <<>>
    /\ cv_current = <<>>
    /\ pcValid = "returned"
    /\ cv_ret = FALSE

IsCacheValidCall ==
    /\ pcValid = "loaded"
    /\ cv_ret' = is_cache_valid(cv_cache_data, cv_current)
    /\ pcValid' = "returned"
    /\ UNCHANGED <<cv_cache_data, cv_current>>

(***************************************************************************)
(* The project directory.                                                  *)
(*                                                                         *)
(* .stride/sprints holds sprint folders.  A folder is described by whether *)
(* it exists, the st_mtime of each of its files (0: the file does not      *)
(* exist) and what the parsers read in them.  The file contents considered *)
(* are: a plan.md with one task, checked or not; a project.md with no      *)
(* front matter, status word or date, so that parse_sprint falls back to   *)
(* status "unknown" and to the file's mtime as created_date.               *)
(***************************************************************************)
FILE_PROPOSAL == "proposal.md"
FILE_PLAN == "plan.md"
FILE_DESIGN == "design.md"
FILE_IMPLEMENTATION == "implementation.md"
FILE_RETROSPECTIVE == "retrospective.md"
PROJECT_MD == "project.md"

SprintFiles ==
    {PROJECT_MD, FILE_PLAN, FILE_IMPLEMENTATION, FILE_RETROSPECTIVE, FILE_DESIGN,
     FILE_PROPOSAL}

\* A sprint id as generate_sprint_id makes it (utils.py): "SPRINT-" and five
\* upper-case hex digits.
GeneratedSprintId == "SPRINT-AB12C"

FolderNames == {SprintFolderNames[k] : k \in 1..NumSprints} \cup {GeneratedSprintId}

NoFolder == [exists |-> FALSE, mtime |-> [f \in SprintFiles |-> 0], checked |-> FALSE]
EmptyFolder == [exists |-> TRUE, mtime |-> [f \in SprintFiles |-> 0], checked |-> FALSE]

\* (folder / file_name).exists()
FileExists(dir, f) == dir.exists /\ dir.mtime[f] > 0

(***************************************************************************)
(* SprintManager (sprint_manager.py).                                      *)
(***************************************************************************)
\* A plausible slip: the implementation.md test comes first.
determine_status_impl_first(dir) ==
    IF FileExists(dir, FILE_IMPLEMENTATION) THEN "active"
    ELSE IF FileExists(dir, FILE_RETROSPECTIVE) THEN "completed"
    ELSE "proposed"

\* SprintManager._determine_status
determine_status(dir) ==
    IF FileExists(dir, FILE_RETROSPECTIVE) THEN "completed"
    ELSE IF FileExists(dir, FILE_IMPLEMENTATION) THEN "active"
    ELSE IF FileExists(dir, FILE_PLAN) THEN "proposed"
    ELSE "proposed"

\* A plausible slip: the status found at a sprint's first read is stored and
\* returned by the later reads.
sprint_status_stored(sprint_id) ==
    IF lastRead[sprint_id] # None THEN lastRead[sprint_id][1].status
    ELSE determine_status(fs[sprint_id])

\* get_sprint line 146: status = self._determine_status(sprint_path)
sprint_status(sprint_id) == determine_status(fs[sprint_id])

\* SprintManager.get_sprint with include_progress False: None, or the Sprint
\* (its id and status).
get_sprint(sprint_id) ==
    IF ~fs[sprint_id].exists THEN None
    ELSE Some([id |-> sprint_id, status |-> sprint_status(sprint_id)])

\* SprintManager.list_sprints: the Sprints of all subdirectories.  The order
\* (by st_ctime of the directory) is not modelled: the result is kept as a set.
list_sprints == {get_sprint(n)[1] : n \in {m \in FolderNames : get_sprint(m) # None}}

\* A sprint directory holding exactly the given files.
DirWith(files) ==
    [exists |-> TRUE, mtime |-> [f \in SprintFiles |-> IF f \in files THEN 1 ELSE 0],
     checked |-> FALSE]

InitStatus ==
    /\ st_files \in SUBSET SprintFiles
    /\ pcStatus = "given"
    /\ st_ret = "none"

IdleStatus ==
    /\ st_files = {}
    /\ pcStatus = "returned"
    /\ st_ret = "none"

\* A call of _determine_status on the directory.
DetermineStatusCall ==
    /\ pcStatus = "given"
    /\ st_ret' = determine_status(DirWith(st_files))
    /\ pcStatus' = "returned"
    /\ UNCHANGED st_files

(***************************************************************************)
(* SprintManager.get_sprint on one sprint path, with what the files of the *)
(* directory hold.  The path is missing, a file, or a directory; a file of *)
(* the directory is absent, a text (its lines), or not decodable as UTF-8. *)
(***************************************************************************)
NoFile == [kind |-> "absent"]
BinaryFile == [kind |-> "not_utf8"]
TextFile(lns) == [kind |-> "text", lines |-> lns]

MissingPath == [kind |-> "missing"]
FilePath == [kind |-> "file"]
SprintDir(plan, proposal, implementation) ==
    [kind |-> "dir",
     files |-> (FILE_PLAN :> plan) @@ (FILE_PROPOSAL :> proposal)
                  @@ (FILE_IMPLEMENTATION :> implementation)]

\* _parse_acceptance_criteria (lines 50-61)
parse_acceptance_criteria(dir) ==
    LET proposal == dir.files[FILE_PROPOSAL] IN
    IF proposal.kind = "absent" THEN <<>>
    ELSE IF proposal.kind = "not_utf8" THEN <<>>
    ELSE parse_checkboxes(extract_section(proposal.lines, "Acceptance Criteria", 2))

\* _parse_plan_strides (lines 63-87): returns is FALSE when parse_strides
\* does not return; a StrideTask keeps the checked flags of the tasks.
parse_plan_strides(dir) ==
    LET plan == dir.files[FILE_PLAN] IN
    IF plan.kind = "absent" THEN [returns |-> TRUE, value |-> <<>>]
    ELSE IF plan.kind = "not_utf8" THEN [returns |-> TRUE, value |-> <<>>]
    ELSE LET stride_infos == parse_strides(plan.lines) IN
         [returns |-> stride_infos.returns,
          value |-> [k \in 1..Len(stride_infos.value) |->
                        StrideTask(stride_infos.value[k].number,
                                   [t \in 1..Len(stride_infos.value[k].tasks) |->
                                       stride_infos.value[k].tasks[t].checked])]]

\* Were the limit not passed on, all the entries would be returned.
recent_logs_without_limit(dir, limit) ==
    LET implementation == dir.files[FILE_IMPLEMENTATION] IN
    IF implementation.kind # "text" THEN <<>>
    ELSE parse_implementation_logs(implementation.lines, None)

\* _parse_implementation_logs (lines 89-109)
recent_logs(dir, limit) ==
    LET implementation == dir.files[FILE_IMPLEMENTATION] IN
    IF implementation.kind = "absent" THEN <<>>
    ELSE IF implementation.kind = "not_utf8" THEN <<>>
    ELSE parse_implementation_logs(implementation.lines, Some(limit))

\* _calculate_progress (lines 111-132)
calculate_progress(dir) ==
    sprint_progress(parse_plan_strides(dir).value, parse_acceptance_criteria(dir))

\* get_sprint passes limit=5 to _parse_implementation_logs (line 170)
RECENT_LOGS_LIMIT == 5

\* SprintManager.get_sprint(sprint_id, include_progress) on the path: returns
\* is FALSE when the call does not return, value is None or the Sprint.
get_sprint_at(path, include_progress) ==
    IF path.kind # "dir" THEN [returns |-> TRUE, value |-> None]
    ELSE LET status ==
                 determine_status(DirWith({f \in DOMAIN path.files :
                                              path.files[f].kind # "absent"}))
         IN IF include_progress
            THEN [returns |-> parse_plan_strides(path).returns,
                  value |-> Some([status |-> status,
                                  progress |-> Some(calculate_progress(path)),
                                  acceptance_criteria |-> parse_acceptance_criteria(path),
                                  recent_logs |-> recent_logs(path, RECENT_LOGS_LIMIT)])]
            ELSE [returns |-> TRUE,
                  value |-> Some([status |-> status, progress |-> None,
                                  acceptance_criteria |-> <<>>,
                                  recent_logs |-> <<>>])]

\* The text of a plan.md with the given strides: for each a heading, the
\* Tasks marker and one checkbox line per task.
RECURSIVE PlanOf(_)
PlanOf(stride_tasks) ==
    IF stride_tasks = <<>> THEN <<>>
    ELSE LET first == stride_tasks[1] IN
         << Ln("stride_heading", first.stride_number, FALSE, "Setup"),
            Ln("tasks_marker", 0, FALSE, "**Tasks:**") >>
         \o [t \in 1..Len(first.tasks) |-> Ln("checkbox", 0, first.tasks[t], "ship")]
         \o PlanOf(Tail(stride_tasks))

PlanFiles ==
    {NoFile, BinaryFile}
    \cup {TextFile(PlanOf(s)) : s \in SeqUpTo(StrideTasks, MaxPlanStrides)}
    \cup {TextFile(PlanOf(s) \o <<Ln("h3_with_stride_word", 0, FALSE, "### Stride 2 notes")>>) :
             s \in SeqUpTo(StrideTasks, 1)}

\* A line of proposal.md, as extract_section and parse_checkboxes see it.
ProposalLn(hashes, text, cls, checked) ==
    [indent |-> FALSE, hashes |-> hashes, text |-> text, cls |-> cls,
     checked |-> checked]

ProposalLines ==
    { ProposalLn(2, "Acceptance Criteria", "heading", FALSE),
      ProposalLn(2, "Acceptance Criteria Notes", "heading", FALSE),
      ProposalLn(2, "Scope", "heading", FALSE),
      ProposalLn(0, "works offline", "checkbox", TRUE),    \* "- [x] works offline"
      ProposalLn(0, "documented", "checkbox", FALSE) }     \* "- [ ] documented"

ProposalFiles ==
    {NoFile, BinaryFile}
    \cup {TextFile(lns) : lns \in SeqUpTo(ProposalLines, MaxProposalLen)}

\* An implementation.md with n entries, the k-th stamped k.
RECURSIVE LogOf(_)
LogOf(n) ==
    IF n = 0 THEN <<>>
    ELSE LogOf(n - 1) \o << LogLn("timestamp_heading", n, "Setup", ""),
                            LogLn("notes_heading", "", "", "### Notes"),
                            LogLn("bullet", "", "", "wrote the parser") >>

LogFiles == {NoFile, BinaryFile} \cup {TextFile(LogOf(n)) : n \in 0..MaxEntries}

SamplePlan == TextFile(PlanOf(<<StrideTask(1, <<TRUE>>)>>))
SampleProposal ==
    TextFile(<< ProposalLn(2, "Acceptance Criteria", "heading", FALSE),
                ProposalLn(0, "works offline", "checkbox", TRUE) >>)

\* The paths get_sprint is called on.
SprintPaths ==
    {MissingPath, FilePath}
    \cup {SprintDir(plan, proposal, NoFile) :
             plan \in PlanFiles, proposal \in {NoFile, SampleProposal}}
    \cup {SprintDir(plan, proposal, NoFile) :
             plan \in {NoFile, SamplePlan}, proposal \in ProposalFiles}
    \cup {SprintDir(plan, NoFile, implementation) :
             plan \in {NoFile, SamplePlan}, implementation \in LogFiles}

InitManager ==
    /\ sm_dir \in SprintPaths
    /\ sm_call = [op |-> "none"]
    /\ sm_ret = None

IdleManager ==
    /\ sm_dir = MissingPath
    /\ sm_call = [op |-> "idle"]
    /\ sm_ret = None

\* A call of get_sprint that returns.
GetSprintCall(include_progress) ==
    /\ sm_call.op = "none"
    /\ get_sprint_at(sm_dir, include_progress).returns
    /\ sm_call' = [op |-> "get_sprint", include_progress |-> include_progress]
    /\ sm_ret' = get_sprint_at(sm_dir, include_progress).value
    /\ UNCHANGED sm_dir

(***************************************************************************)
(* SprintManager.list_sprints, statement by statement, while another       *)
(* process removes sprint directories.  Each action is one statement of    *)
(* list_sprints or of the get_sprint it calls; a removal may come between  *)
(* any two of them.  A statement that makes several tests of the same      *)
(* directory (line 143, _determine_status) ends as if the removal came     *)
(* before or after it, so it is one step.                                  *)
(***************************************************************************)
RaceNames == {SprintFolderNames[k] : k \in 1..NumRaceDirs}

\* The directories of the model: absent, empty, or with the files that
\* decide the status and the title.
RaceDirs ==
    {NoFolder} \cup {DirWith(files) : files \in SUBSET {FILE_PROPOSAL, FILE_RETROSPECTIVE}}

\* st_ctime of the folders: they were created in the order of their names.
CreatedAt(name) == CHOOSE k \in 1..Len(SprintFolderNames) : SprintFolderNames[k] = name

InitRace ==
    /\ rc_fs \in [RaceNames -> RaceDirs]
    /\ rc_pc = "call"
    /\ rc_items = {}
    /\ rc_item = None
    /\ rc_sprints = <<>>
    /\ rc_ret = None

IdleRace ==
    /\ rc_fs = [n \in RaceNames |-> NoFolder]
    /\ rc_pc = "idle"
    /\ rc_items = {}
    /\ rc_item = None
    /\ rc_sprints = <<>>
    /\ rc_ret = None

\* Lines 180-184: sprints_dir exists, iterdir() lists its entries.
ListIterdir ==
    /\ rc_pc = "call"
    /\ rc_items' = {n \in RaceNames : rc_fs[n].exists}
    /\ rc_pc' = "loop"
    /\ UNCHANGED <<rc_fs, rc_item, rc_sprints, rc_ret>>

\* Lines 184-186: the next entry, in any order; item.is_dir() is False for
\* an entry that is gone, and get_sprint is called for the others.
ListNextItem ==
    /\ rc_pc = "loop"
    /\ \E n \in rc_items :
          /\ rc_items' = rc_items \ {n}
          /\ IF rc_fs[n].exists
             THEN /\ rc_item' = Some([id |-> n])
                  /\ rc_pc' = "exists"
             ELSE UNCHANGED <<rc_item, rc_pc>>
    /\ UNCHANGED <<rc_fs, rc_sprints, rc_ret>>

\* get_sprint lines 142-144: None for a path that is not a directory, and
\* list_sprints goes on with the next entry.
GetSprintExists ==
    /\ rc_pc = "exists"
    /\ IF rc_fs[rc_item[1].id].exists
       THEN /\ rc_pc' = "status"
            /\ UNCHANGED rc_item
       ELSE /\ rc_pc' = "loop"
            /\ rc_item' = None
    /\ UNCHANGED <<rc_fs, rc_items, rc_sprints, rc_ret>>

\* get_sprint line 146: the three exists() tests of _determine_status.
GetSprintStatus ==
    /\ rc_pc = "status"
    /\ rc_item' = Some([id |-> rc_item[1].id,
                        status |-> determine_status(rc_fs[rc_item[1].id])])
    /\ rc_pc' = "stat"
    /\ UNCHANGED <<rc_fs, rc_items, rc_sprints, rc_ret>>

\* get_sprint lines 148-151: sprint_path.stat() raises FileNotFoundError for
\* a path that is gone; neither get_sprint nor list_sprints catches it.
GetSprintStat ==
    /\ rc_pc = "stat"
    /\ IF rc_fs[rc_item[1].id].exists
       THEN /\ rc_item' = Some([id |-> rc_item[1].id,
                                status |-> rc_item[1].status,
                                created_at |-> CreatedAt(rc_item[1].id)])
            /\ rc_pc' = "title"
            /\ UNCHANGED rc_ret
       ELSE /\ rc_ret' = [raised |-> TRUE, value |-> "FileNotFoundError"]
            /\ rc_pc' = "done"
            /\ UNCHANGED rc_item
    /\ UNCHANGED <<rc_fs, rc_items, rc_sprints>>

\* get_sprint lines 153-175 and list_sprints lines 187-188: the title is
\* read from proposal.md when it exists (a failing read is caught), else it
\* is the folder's name; the Sprint is appended.
GetSprintTitle ==
    /\ rc_pc = "title"
    /\ LET id == rc_item[1].id
           title == IF FileExists(rc_fs[id], FILE_PROPOSAL) THEN "proposal title"
                    ELSE id
       IN rc_sprints' = Append(rc_sprints,
                               [id |-> id, title |-> title,
                                status |-> rc_item[1].status,
                                created_at |-> rc_item[1].created_at])
    /\ rc_item' = None
    /\ rc_pc' = "loop"
    /\ UNCHANGED <<rc_fs, rc_items, rc_ret>>

\* Lines 190-192: sorted by created_at, newest first, and returned.
ListReturn ==
    /\ rc_pc = "loop"
    /\ rc_items = {}
    /\ LET n == Len(rc_sprints)
           order == SortedBy(1..n, [k \in 1..n |-> 0 - rc_sprints[k].created_at])
       IN rc_ret' = [raised |-> FALSE,
                     value |-> [k \in 1..n |-> rc_sprints[order[k]]]]
    /\ rc_pc' = "done"
    /\ UNCHANGED <<rc_fs, rc_items, rc_item, rc_sprints>>

\* Another process removes a sprint directory.
RemoveSprintDir ==
    /\ rc_pc \notin {"idle", "done"}
    /\ \E n \in RaceNames :
          /\ rc_fs[n].exists
          /\ rc_fs' = [rc_fs EXCEPT ![n] = NoFolder]
    /\ UNCHANGED <<rc_pc, rc_items, rc_item, rc_sprints, rc_ret>>

(***************************************************************************)
(* sprint_parser.py                                                        *)
(***************************************************************************)
\* folder.name.startswith("sprint-")
StartsWithSprintDash(name) == \E k \in 1..Len(SprintFolderNames) : SprintFolderNames[k] = name

\* _extract_sprint_number
extract_sprint_number(name) ==
    IF StartsWithSprintDash(name)
    THEN CHOOSE k \in 1..Len(SprintFolderNames) : SprintFolderNames[k] = name
    ELSE 0

\* scan_sprint_folders: the existing folders named sprint-*, by sprint number.
scan_sprint_folders(dirs) ==
    SortedBy({n \in DOMAIN dirs : dirs[n].exists /\ StartsWithSprintDash(n)},
             [n \in DOMAIN dirs |-> extract_sprint_number(n)])

\* parse_sprint, the fields of SprintData the modelled metrics read.
\* created_date is project.md's mtime, or datetime.now() at the time of the
\* parse (later than every mtime, and not earlier than for the folder parsed
\* before) when there is no project.md: created_rank orders these dates.
parse_sprint(dirs, name, position) ==
    LET dir == dirs[name] IN
    [sprint_id |-> name,
     status |-> "unknown",
     created_rank |-> IF FileExists(dir, PROJECT_MD)
                      THEN dir.mtime[PROJECT_MD] * (NumSprints + 1) + position
                      ELSE (MaxMtime + 1) * (NumSprints + 1) + position,
     total_tasks |-> IF FileExists(dir, FILE_PLAN) THEN 1 ELSE 0,
     completed_tasks |-> IF FileExists(dir, FILE_PLAN) /\ dir.checked THEN 1 ELSE 0,
     has_planning |-> FileExists(dir, FILE_PLAN),
     has_implementation |-> FileExists(dir, FILE_IMPLEMENTATION),
     has_retrospective |-> FileExists(dir, FILE_RETROSPECTIVE),
     has_design |-> FileExists(dir, FILE_DESIGN),
     has_proposal |-> FileExists(dir, FILE_PROPOSAL)]

\* parse_all_sprints: scan again, parse each folder.
parse_all_sprints(dirs) ==
    LET folders == scan_sprint_folders(dirs)
    IN [k \in 1..Len(folders) |-> parse_sprint(dirs, folders[k], k)]

(***************************************************************************)
(* MetricsCalculator (metrics_calculator.py), for the parts of the metrics *)
(* tree that are functions of the SprintData fields above (the duration    *)
(* metrics and the per-period counts of the trends, made from dates and    *)
(* the wall clock, are left out).  A function that can raise returns a     *)
(* record with the field raised.                                           *)
(*                                                                         *)
(* A quotient a / b of the source is kept as the pair [num, den]; the      *)
(* literal 0 of an else branch is Ratio(0, 1).                             *)
(***************************************************************************)
\* The status texts the sprints of the model carry, and str.lower() on them.
Statuses == {"completed", "Completed", "active", "abandoned", "paused", "unknown"}

Lower(status) == IF status = "Completed" THEN "completed" ELSE status

\* SprintData.is_completed
is_completed(sprint) == Lower(sprint.status) = "completed"

\* sum(s.<field> for s in seq); pending_tasks is total_tasks -
\* completed_tasks (_parse_plan_file).
RECURSIVE SumOver(_, _)
SumOver(seq, field) ==
    IF seq = <<>> THEN 0
    ELSE (IF field = "total_tasks" THEN Head(seq).total_tasks
          ELSE IF field = "pending_tasks"
               THEN Head(seq).total_tasks - Head(seq).completed_tasks
          ELSE Head(seq).completed_tasks) + SumOver(Tail(seq), field)

CountWhere(seq, flag) ==
    Cardinality({k \in 1..Len(seq) :
        CASE flag = "has_planning" -> seq[k].has_planning
          [] flag = "has_implementation" -> seq[k].has_implementation
          [] flag = "has_retrospective" -> seq[k].has_retrospective
          [] flag = "has_design" -> seq[k].has_design
          [] flag = "has_proposal" -> seq[k].has_proposal
          [] flag = "is_completed" -> is_completed(seq[k])})

\* status_counts.get(status, 0) of calculate_counts
StatusCount(seq, status) ==
    Cardinality({k \in 1..Len(seq) : Lower(seq[k].status) = status})

\* sorted(self.sprints, key=lambda s: s.created_date): a stable sort, sprints
\* of equal date keep their order.
sorted_by_created_date(sprints) ==
    LET n == Len(sprints)
        order == SortedBy(1..n, [k \in 1..n |-> sprints[k].created_rank * (n + 1) + k])
    IN [k \in 1..n |-> sprints[order[k]]]

\* The trend of lines 254-259 and 273-278 for recent = rn/rd and older = on/od:
\* recent > older * 1.1, recent < older * 0.9.  For the small counts compared
\* here the double arithmetic of the source decides as the exact one does.
TrendOf(rn, rd, on, od) ==
    IF 10 * rn * od > 11 * on * rd THEN "improving"
    ELSE IF 10 * rn * od < 9 * on * rd THEN "declining"
    ELSE "stable"

TRENDS_MIN_SPRINTS == 4

\* MetricsCalculator._calculate_velocity_trend; statistics.mean raises
\* StatisticsError on an empty list.
calculate_velocity_trend(sorted_sprints) ==
    IF Len(sorted_sprints) < TRENDS_MIN_SPRINTS
    THEN [raised |-> FALSE, value |-> "insufficient_data"]
    ELSE LET midpoint == Len(sorted_sprints) \div 2
             older == SubSeq(sorted_sprints, 1, midpoint)
             recent == SubSeq(sorted_sprints, midpoint + 1, Len(sorted_sprints))
             done(seq) == SelectSeq(seq, LAMBDA sp : sp.completed_tasks > 0)
         IN IF done(older) = <<>> \/ done(recent) = <<>>
            THEN [raised |-> TRUE, value |-> "StatisticsError"]
            ELSE [raised |-> FALSE,
                  value |-> TrendOf(SumOver(done(recent), "completed_tasks"),
                                    Len(done(recent)),
                                    SumOver(done(older), "completed_tasks"),
                                    Len(done(older)))]

\* MetricsCalculator._calculate_completion_trend
calculate_completion_trend(sorted_sprints) ==
    IF Len(sorted_sprints) < TRENDS_MIN_SPRINTS THEN "insufficient_data"
    ELSE LET midpoint == Len(sorted_sprints) \div 2
             older == SubSeq(sorted_sprints, 1, midpoint)
             recent == SubSeq(sorted_sprints, midpoint + 1, Len(sorted_sprints))
         IN TrendOf(CountWhere(recent, "is_completed"), Len(recent),
                    CountWhere(older, "is_completed"), Len(older))

\* MetricsCalculator.calculate_counts
calculate_counts(sprints) ==
    LET total == Len(sprints) IN
    [total_sprints |-> total,
     active_sprints |-> StatusCount(sprints, "active"),
     completed_sprints |-> StatusCount(sprints, "completed"),
     abandoned_sprints |-> StatusCount(sprints, "abandoned"),
     paused_sprints |-> StatusCount(sprints, "paused"),
     completion_rate |-> Percent(StatusCount(sprints, "completed"), total),
     abandonment_rate |-> Percent(StatusCount(sprints, "abandoned"), total),
     active_ratio |-> Percent(StatusCount(sprints, "active"), total)]

\* A plausible slip: the averages are taken over all the sprints.
calculate_task_metrics_all_sprints(sprints) ==
    LET sum_total_tasks == SumOver(sprints, "total_tasks")
        sum_completed_tasks == SumOver(sprints, "completed_tasks")
    IN [total_tasks |-> sum_total_tasks,
        completed_tasks |-> sum_completed_tasks,
        pending_tasks |-> SumOver(sprints, "pending_tasks"),
        task_completion_rate |-> Percent(sum_completed_tasks, sum_total_tasks),
        average_tasks_per_sprint |-> Ratio(sum_total_tasks, Len(sprints)),
        average_completed_per_sprint |-> Ratio(sum_completed_tasks, Len(sprints)),
        sprint_velocity |-> Ratio(sum_completed_tasks, Len(sprints))]

\* MetricsCalculator.calculate_task_metrics
calculate_task_metrics(sprints) ==
    LET sum_total_tasks == SumOver(sprints, "total_tasks")
        sum_completed_tasks == SumOver(sprints, "completed_tasks")
        completed_sprints == SelectSeq(sprints, is_completed)
        avg_tasks == IF completed_sprints # <<>>
                     THEN Ratio(SumOver(completed_sprints, "total_tasks"),
                                Len(completed_sprints))
                     ELSE Ratio(0, 1)
        avg_completed == IF completed_sprints # <<>>
                         THEN Ratio(SumOver(completed_sprints, "completed_tasks"),
                                    Len(completed_sprints))
                         ELSE Ratio(0, 1)
    IN [total_tasks |-> sum_total_tasks,
        completed_tasks |-> sum_completed_tasks,
        pending_tasks |-> SumOver(sprints, "pending_tasks"),
        task_completion_rate |-> Percent(sum_completed_tasks, sum_total_tasks),
        average_tasks_per_sprint |-> avg_tasks,
        average_completed_per_sprint |-> avg_completed,
        sprint_velocity |-> avg_completed]

\* MetricsCalculator.calculate_quality_metrics
calculate_quality_metrics(sprints) ==
    LET total == Len(sprints)
        with_planning == CountWhere(sprints, "has_planning")
        with_impl == CountWhere(sprints, "has_implementation")
        with_retro == CountWhere(sprints, "has_retrospective")
    IN [sprints_with_planning |-> with_planning,
        sprints_with_implementation |-> with_impl,
        sprints_with_retrospective |-> with_retro,
        sprints_with_design |-> CountWhere(sprints, "has_design"),
        sprints_with_proposal |-> CountWhere(sprints, "has_proposal"),
        planning_coverage |-> Percent(with_planning, total),
        implementation_coverage |-> Percent(with_impl, total),
        retrospective_coverage |-> Percent(with_retro, total),
        process_adoption_rate |-> Percent(with_planning + with_impl + with_retro, total * 3)]

\* MetricsCalculator.calculate_trends
calculate_trends(sprints) ==
    IF sprints = <<>> THEN [raised |-> FALSE, value |-> [has_trend_data |-> FALSE]]
    ELSE LET sorted_sprints == sorted_by_created_date(sprints)
             velocity == calculate_velocity_trend(sorted_sprints)
         IN IF velocity.raised THEN velocity
            ELSE [raised |-> FALSE, value |->
                    [has_trend_data |-> TRUE,
                     velocity_trend |-> velocity.value,
                     completion_rate_trend |-> calculate_completion_trend(sorted_sprints)]]

RECURSIVE Gcd(_, _)
Gcd(a, b) == IF b = 0 THEN a ELSE Gcd(b, a % b)

\* The quotient r in lowest terms, as <<numerator, denominator>>.
Lowest(r) ==
    LET g == Gcd(r.num, r.den) IN <<r.num \div g, r.den \div g>>

\* The rates <<completion_rate, task_completion_rate, process_adoption_rate,
\* abandonment_rate>>, each as numerator, denominator in lowest terms, for
\* which the sum of lines 282-298, accumulated in doubles, ends just below
\* the integer that the four terms add up to, so that int(score) of line 300
\* is that integer less one: with rates 100/3, 100, 100/3 and 0 the sum is
\* 59.99999999999999 and not 60.  The table is the result of evaluating
\* lines 62-63, 116, 149 and 282-300 in IEEE doubles for every list of up to
\* 5 sprints with up to 15 tasks in all; in no case of that range does the
\* double sum end above an integer that the exact sum does not reach.
HealthScoreFallsShort ==
    {<<0, 1, 50, 3, 0, 1, 80, 1>>, <<0, 1, 50, 3, 0, 1, 100, 1>>,
     <<0, 1, 50, 3, 100, 3, 200, 3>>, <<0, 1, 100, 3, 0, 1, 40, 1>>,
     <<0, 1, 100, 3, 0, 1, 50, 1>>, <<0, 1, 100, 3, 0, 1, 60, 1>>,
     <<0, 1, 100, 3, 0, 1, 80, 1>>, <<0, 1, 100, 3, 0, 1, 100, 1>>,
     <<0, 1, 100, 3, 20, 1, 80, 1>>, <<0, 1, 100, 3, 20, 1, 100, 1>>,
     <<0, 1, 100, 3, 25, 1, 100, 1>>, <<0, 1, 100, 3, 200, 3, 100, 3>>,
     <<0, 1, 400, 9, 25, 3, 100, 1>>, <<0, 1, 140, 3, 0, 1, 80, 1>>,
     <<0, 1, 140, 3, 0, 1, 100, 1>>, <<0, 1, 200, 3, 0, 1, 0, 1>>,
     <<0, 1, 200, 3, 0, 1, 20, 1>>, <<0, 1, 200, 3, 0, 1, 40, 1>>,
     <<0, 1, 200, 3, 0, 1, 50, 1>>, <<0, 1, 200, 3, 0, 1, 60, 1>>,
     <<0, 1, 200, 3, 0, 1, 80, 1>>, <<0, 1, 200, 3, 0, 1, 100, 1>>,
     <<0, 1, 200, 3, 20, 1, 20, 1>>, <<0, 1, 200, 3, 20, 1, 40, 1>>,
     <<0, 1, 200, 3, 20, 1, 60, 1>>, <<0, 1, 200, 3, 20, 1, 80, 1>>,
     <<0, 1, 200, 3, 20, 1, 100, 1>>, <<0, 1, 200, 3, 25, 1, 50, 1>>,
     <<0, 1, 200, 3, 25, 1, 100, 1>>, <<0, 1, 200, 3, 40, 1, 60, 1>>,
     <<0, 1, 200, 3, 40, 1, 80, 1>>, <<0, 1, 200, 3, 40, 1, 100, 1>>,
     <<0, 1, 200, 3, 50, 1, 100, 1>>, <<0, 1, 200, 3, 60, 1, 100, 1>>,
     <<0, 1, 220, 3, 0, 1, 0, 1>>, <<0, 1, 220, 3, 0, 1, 20, 1>>,
     <<0, 1, 220, 3, 0, 1, 40, 1>>, <<0, 1, 220, 3, 0, 1, 50, 1>>,
     <<0, 1, 220, 3, 0, 1, 60, 1>>, <<0, 1, 220, 3, 0, 1, 80, 1>>,
     <<0, 1, 220, 3, 0, 1, 100, 1>>, <<0, 1, 220, 3, 20, 1, 40, 1>>,
     <<0, 1, 220, 3, 20, 1, 60, 1>>, <<0, 1, 220, 3, 20, 1, 80, 1>>,
     <<0, 1, 220, 3, 20, 1, 100, 1>>, <<0, 1, 220, 3, 25, 1, 50, 1>>,
     <<0, 1, 220, 3, 25, 1, 100, 1>>, <<0, 1, 220, 3, 40, 1, 80, 1>>,
     <<0, 1, 220, 3, 40, 1, 100, 1>>, <<0, 1, 220, 3, 50, 1, 100, 1>>,
     <<0, 1, 800, 9, 20, 3, 60, 1>>, <<0, 1, 800, 9, 20, 3, 80, 1>>,
     <<0, 1, 800, 9, 20, 3, 100, 1>>, <<0, 1, 800, 9, 50, 3, 100, 1>>,
     <<0, 1, 275, 3, 0, 1, 75, 1>>, <<0, 1, 280, 3, 0, 1, 60, 1>>,
     <<0, 1, 280, 3, 0, 1, 80, 1>>, <<0, 1, 280, 3, 0, 1, 100, 1>>,
     <<0, 1, 280, 3, 20, 1, 100, 1>>, <<20, 1, 200, 3, 0, 1, 60, 1>>,
     <<20, 1, 200, 3, 0, 1, 80, 1>>, <<20, 1, 220, 3, 0, 1, 80, 1>>,
     <<25, 1, 200, 9, 50, 3, 0, 1>>, <<25, 1, 200, 9, 50, 3, 50, 1>>,
     <<100, 3, 100, 9, 100, 3, 100, 3>>, <<100, 3, 100, 3, 0, 1, 100, 3>>,
     <<100, 3, 100, 3, 100, 3, 0, 1>>, <<100, 3, 100, 3, 200, 3, 200, 3>>,
     <<100, 3, 140, 3, 100, 3, 0, 1>>, <<100, 3, 140, 3, 200, 3, 200, 3>>,
     <<100, 3, 200, 3, 100, 3, 0, 1>>, <<100, 3, 200, 3, 200, 3, 200, 3>>,
     <<100, 3, 70, 1, 100, 3, 0, 1>>, <<100, 3, 70, 1, 200, 3, 200, 3>>,
     <<100, 3, 220, 3, 100, 3, 0, 1>>, <<100, 3, 220, 3, 200, 3, 200, 3>>,
     <<100, 3, 80, 1, 100, 3, 0, 1>>, <<100, 3, 80, 1, 200, 3, 200, 3>>,
     <<100, 3, 260, 3, 100, 3, 0, 1>>, <<100, 3, 260, 3, 200, 3, 200, 3>>,
     <<100, 3, 90, 1, 100, 3, 0, 1>>, <<100, 3, 90, 1, 200, 3, 200, 3>>,
     <<100, 3, 280, 3, 100, 3, 0, 1>>, <<100, 3, 280, 3, 200, 3, 200, 3>>,
     <<100, 3, 100, 1, 100, 3, 0, 1>>, <<100, 3, 100, 1, 200, 3, 200, 3>>,
     <<40, 1, 200, 9, 20, 3, 20, 1>>, <<40, 1, 200, 9, 20, 3, 40, 1>>,
     <<40, 1, 200, 9, 20, 3, 60, 1>>, <<50, 1, 400, 9, 25, 3, 0, 1>>,
     <<50, 1, 400, 9, 25, 3, 50, 1>>, <<50, 1, 400, 9, 100, 3, 0, 1>>,
     <<50, 1, 400, 9, 100, 3, 50, 1>>, <<60, 1, 400, 9, 40, 3, 0, 1>>,
     <<60, 1, 400, 9, 40, 3, 20, 1>>, <<60, 1, 400, 9, 40, 3, 40, 1>>,
     <<60, 1, 400, 9, 100, 3, 0, 1>>, <<60, 1, 400, 9, 100, 3, 20, 1>>,
     <<60, 1, 400, 9, 100, 3, 40, 1>>, <<60, 1, 400, 9, 220, 3, 0, 1>>,
     <<60, 1, 400, 9, 220, 3, 20, 1>>, <<60, 1, 400, 9, 220, 3, 40, 1>>,
     <<200, 3, 200, 9, 100, 3, 0, 1>>, <<200, 3, 500, 9, 100, 3, 0, 1>>,
     <<200, 3, 200, 3, 100, 3, 100, 3>>, <<200, 3, 200, 3, 200, 3, 0, 1>>,
     <<200, 3, 220, 3, 100, 3, 100, 3>>, <<200, 3, 220, 3, 200, 3, 0, 1>>,
     <<200, 3, 280, 3, 100, 3, 100, 3>>, <<200, 3, 280, 3, 200, 3, 0, 1>>,
     <<75, 1, 400, 9, 25, 3, 0, 1>>, <<75, 1, 400, 9, 100, 3, 0, 1>>,
     <<80, 1, 400, 9, 40, 3, 0, 1>>, <<80, 1, 400, 9, 40, 3, 20, 1>>,
     <<80, 1, 400, 9, 100, 3, 0, 1>>, <<80, 1, 400, 9, 100, 3, 20, 1>>,
     <<100, 1, 800, 9, 20, 3, 0, 1>>, <<100, 1, 800, 9, 50, 3, 0, 1>>,
     <<100, 1, 800, 9, 80, 3, 0, 1>>, <<100, 1, 800, 9, 125, 3, 0, 1>>,
     <<100, 1, 800, 9, 140, 3, 0, 1>>, <<100, 1, 800, 9, 200, 3, 0, 1>>,
     <<100, 1, 800, 9, 275, 3, 0, 1>>}

\* int(score) of line 300 for the exact sum numerator / denominator of the
\* four terms: the truncated exact sum, except on HealthScoreFallsShort,
\* where the exact sum is an integer.
int_of_score(numerator, denominator, rates) ==
    IF numerator % denominator = 0 /\ rates \in HealthScoreFallsShort
    THEN (numerator \div denominator) - 1
    ELSE numerator \div denominator

\* Lines 282-298: the four rates, which are quotients, weighted by 0.4, 0.3,
\* 0.2 and 0.1, the last one taken from 100.
weighted_score(completion_rate, task_completion, process_adoption, abandonment) ==
    int_of_score(
        4 * completion_rate.num * task_completion.den
            * process_adoption.den * abandonment.den
        + 3 * task_completion.num * completion_rate.den
            * process_adoption.den * abandonment.den
        + 2 * process_adoption.num * completion_rate.den
            * task_completion.den * abandonment.den
        + (100 * abandonment.den - abandonment.num) * completion_rate.den
            * task_completion.den * process_adoption.den,
        10 * completion_rate.den * task_completion.den
            * process_adoption.den * abandonment.den,
        Lowest(completion_rate) \o Lowest(task_completion)
            \o Lowest(process_adoption) \o Lowest(abandonment))

\* MetricsCalculator._calculate_health_score
calculate_health_score(counts, tasks, quality) ==
    weighted_score(counts.completion_rate, tasks.task_completion_rate,
                   quality.process_adoption_rate, counts.abandonment_rate)

\* MetricsCalculator._assess_productivity
assess_productivity(tasks) ==
    LET velocity == tasks.sprint_velocity IN
    IF velocity.num >= 10 * velocity.den THEN "high"
    ELSE IF velocity.num >= 5 * velocity.den THEN "medium"
    ELSE IF velocity.num > 0 THEN "low"
    ELSE "none"

\* MetricsCalculator._assess_process_maturity
assess_process_maturity(quality) ==
    LET adoption == quality.process_adoption_rate IN
    IF adoption.num >= 80 * adoption.den THEN "mature"
    ELSE IF adoption.num >= 50 * adoption.den THEN "developing"
    ELSE IF adoption.num > 0 THEN "early"
    ELSE "none"

\* MetricsCalculator._assess_overall_status
assess_overall_status(health_score) ==
    IF health_score >= 80 THEN "excellent"
    ELSE IF health_score >= 60 THEN "good"
    ELSE IF health_score >= 40 THEN "fair"
    ELSE "needs_improvement"

\* Lines 214-219: the dict calculate_summary returns.
summary_of(tasks, quality, health_score) ==
    [health_score |-> health_score,
     productivity_level |-> assess_productivity(tasks),
     process_maturity |-> assess_process_maturity(quality),
     overall_status |-> assess_overall_status(health_score)]

\* Lines 210-219 of calculate_summary, on the three dicts it computed.
summary_from(counts, tasks, quality) ==
    summary_of(tasks, quality, calculate_health_score(counts, tasks, quality))

\* MetricsCalculator.calculate_summary
calculate_summary(sprints) ==
    summary_from(calculate_counts(sprints), calculate_task_metrics(sprints),
                 calculate_quality_metrics(sprints))

\* MetricsCalculator._empty_metrics
empty_metrics ==
    [counts |-> [total_sprints |-> 0],
     duration |-> [has_duration_data |-> FALSE],
     tasks |-> [total_tasks |-> 0],
     quality |-> [process_adoption_rate |-> 0],
     trends |-> [has_trend_data |-> FALSE],
     summary |-> [health_score |-> 0, productivity_level |-> "none"]]

\* Lines 33-40: the dict of the five parts, built in the order counts,
\* duration, tasks, quality, trends, summary; an exception of calculate_trends
\* leaves the method.  calculate_summary computes the counts, the task
\* metrics and the quality metrics of self.sprints again, with the same
\* result.
metrics_tree(counts, tasks, quality, trends) ==
    IF trends.raised THEN [raised |-> TRUE, value |-> trends.value]
    ELSE [raised |-> FALSE, value |->
            [counts |-> counts,
             tasks |-> tasks,
             quality |-> quality,
             trends |-> trends.value,
             summary |-> summary_from(counts, tasks, quality)]]

\* MetricsCalculator.calculate_all_metrics
calculate_all_metrics(sprints) ==
    IF sprints = <<>> THEN [raised |-> FALSE, value |-> empty_metrics]
    ELSE metrics_tree(calculate_counts(sprints), calculate_task_metrics(sprints),
                      calculate_quality_metrics(sprints), calculate_trends(sprints))

\* A SprintData with the fields the metrics read.
SprintData(status, created_rank, total, completed, has_planning, has_implementation, has_retrospective) ==
    [status |-> status, created_rank |-> created_rank,
     total_tasks |-> total, completed_tasks |-> completed,
     has_planning |-> has_planning, has_implementation |-> has_implementation,
     has_retrospective |-> has_retrospective,
     has_design |-> FALSE, has_proposal |-> FALSE]

\* The non-empty sequences over S of length up to n.
Lists(S, n) == SeqUpTo(S, n) \ {<<>>}

\* An early and a late created_date.
Dates == {1, 2}

\* The lists the calculator is tried on.  For the velocity trend: sprints of
\* either date with 0..MaxDone completed tasks.  For the completion trend:
\* completed and active sprints of either date.  For the task metrics and
\* the summary: sprints of every status and task count, with plan.md when
\* they have tasks, and with implementation.md and retrospective.md when
\* they are completed.
VelocitySprints ==
    {SprintData("active", d, MaxDone, c, TRUE, FALSE, FALSE) :
        d \in Dates, c \in 0..MaxDone}

CompletionSprints ==
    {SprintData(st, d, 1, 1, TRUE, FALSE, FALSE) :
        st \in {"completed", "active"}, d \in Dates}

TaskSprints ==
    UNION {{SprintData(st, 1, t, c, t > 0, Lower(st) = "completed",
                       Lower(st) = "completed") : c \in 0..t} :
           st \in {"completed", "Completed", "active", "abandoned"},
           t \in 0..MaxSprintTasks}

MetricsInputs ==
    Lists(VelocitySprints, MaxTrendSprints)
       \cup Lists(CompletionSprints, MaxTrendSprints)
       \cup Lists(TaskSprints, MaxMetricSprints)

InitMetrics ==
    /\ mc_sprints \in MetricsInputs
    /\ mc_call = "none"
    /\ mc_ret = None

IdleMetrics ==
    /\ mc_sprints = <<>>
    /\ mc_call = "idle"
    /\ mc_ret = None

\* A method of MetricsCalculator(mc_sprints) is called.
Called(method, outcome) ==
    /\ mc_call = "none"
    /\ mc_call' = method
    /\ mc_ret' = outcome
    /\ UNCHANGED mc_sprints

Returned(value) == [raised |-> FALSE, value |-> value]

CalculateAllMetrics == Called("calculate_all_metrics", calculate_all_metrics(mc_sprints))

CalculateTrends == Called("calculate_trends", calculate_trends(mc_sprints))

CalculateTaskMetrics ==
    Called("calculate_task_metrics", Returned(calculate_task_metrics(mc_sprints)))

CalculateSummary ==
    Called("calculate_summary", Returned(calculate_summary(mc_sprints)))

(***************************************************************************)
(* MetricsCalculator.calculate_duration_metrics.  duration_days is None or *)
(* Some(d), d a number of days; std_dev, a square root, is left out.       *)
(***************************************************************************)
\* Were the scan to keep the last match, a tie would give the later sprint.
find_last_sprint_by_duration(sprints, duration) ==
    LET found == {k \in 1..Len(sprints) : sprints[k].duration_days = Some(duration)}
    IN IF found = {} THEN "unknown"
       ELSE sprints[CHOOSE k \in found : \A m \in found : m <= k].sprint_id

\* _find_sprint_by_duration (lines 234-239)
find_sprint_by_duration(sprints, duration) ==
    LET found == {k \in 1..Len(sprints) : sprints[k].duration_days = Some(duration)}
    IN IF found = {} THEN "unknown"
       ELSE sprints[CHOOSE k \in found : \A m \in found : k <= m].sprint_id

\* Line 69: the durations that are not None and > 0, in input order.
RECURSIVE positive_durations(_)
positive_durations(sprints) ==
    IF sprints = <<>> THEN <<>>
    ELSE LET d == sprints[1].duration_days
         IN (IF d # None /\ d[1] > 0 THEN <<d[1]>> ELSE <<>>)
               \o positive_durations(Tail(sprints))

\* min(durations), max(durations), sum(durations)
MinOf(seq) == CHOOSE x \in {seq[k] : k \in 1..Len(seq)} : \A k \in 1..Len(seq) : x <= seq[k]
MaxOf(seq) == CHOOSE x \in {seq[k] : k \in 1..Len(seq)} : \A k \in 1..Len(seq) : seq[k] <= x
RECURSIVE SumOf(_)
SumOf(seq) == IF seq = <<>> THEN 0 ELSE seq[1] + SumOf(Tail(seq))

\* sum(1 for d in durations if low < d <= high)
CountBetween(seq, low, high) ==
    Cardinality({k \in 1..Len(seq) : low < seq[k] /\ seq[k] <= high})

\* statistics.median: the middle of the sorted values, or the mean of the
\* two middle ones.
median(seq) ==
    LET n == Len(seq)
        K == 1..n
        sorted == SortedBy(K, [k \in K |-> seq[k] * n + k])
    IN IF n % 2 = 1 THEN Ratio(seq[sorted[(n + 1) \div 2]], 1)
       ELSE Ratio(seq[sorted[n \div 2]] + seq[sorted[n \div 2 + 1]], 2)

\* The bounds of the three buckets (lines 87-89).
SHORT_DAYS == 3
LONG_DAYS == 7

\* MetricsCalculator.calculate_duration_metrics (lines 67-92)
calculate_duration_metrics(sprints) ==
    LET durations == positive_durations(sprints) IN
    IF durations = <<>>
    THEN [has_duration_data |-> FALSE, average_duration |-> Ratio(0, 1),
          median_duration |-> Ratio(0, 1), min_duration |-> 0, max_duration |-> 0]
    ELSE [has_duration_data |-> TRUE,
          average_duration |-> Ratio(SumOf(durations), Len(durations)),
          median_duration |-> median(durations),
          min_duration |-> MinOf(durations),
          max_duration |-> MaxOf(durations),
          durations_under_3_days |-> CountBetween(durations, 0, SHORT_DAYS),
          durations_3_to_7_days |-> CountBetween(durations, SHORT_DAYS, LONG_DAYS),
          durations_over_7_days |->
              Cardinality({k \in 1..Len(durations) : durations[k] > LONG_DAYS}),
          fastest_sprint |-> find_sprint_by_duration(sprints, MinOf(durations)),
          slowest_sprint |-> find_sprint_by_duration(sprints, MaxOf(durations))]

\* The durations the sprints come with: none, zero, and days on both sides
\* of and on the bounds of the buckets.
DurationValues == {None} \cup {Some(d) : d \in {0, 2, 3, 5, 7, 9}}

\* Lists of up to MaxDurationSprints sprints, the k-th of the k-th folder.
DurationInputs ==
    UNION {{[k \in 1..n |-> [sprint_id |-> SprintFolderNames[k],
                             duration_days |-> d[k]]] :
               d \in [1..n -> DurationValues]} : n \in 0..MaxDurationSprints}

InitDuration ==
    /\ mc_sprints \in DurationInputs
    /\ mc_call = "none"
    /\ mc_ret = None

CalculateDurationMetrics ==
    Called("calculate_duration_metrics", Returned(calculate_duration_metrics(mc_sprints)))

(***************************************************************************)
(* analytics_cache.py                                                      *)
(***************************************************************************)
\* The files list of calculate_sprint_checksum.
ChecksumFiles == <<PROJECT_MD, FILE_PLAN, FILE_IMPLEMENTATION, FILE_RETROSPECTIVE>>

\* hashlib.md5(...).hexdigest(), taken to be injective: the digest is kept as
\* the text it was made from.
Md5(data) == [md5 |-> data]

\* calculate_sprint_checksum: "name:mtime" of the listed files that exist,
\* joined by "|"; the folder's name when none exists.
calculate_sprint_checksum(dirs, name) ==
    LET present == SelectSeq(ChecksumFiles, LAMBDA f : FileExists(dirs[name], f))
        checksum_data == [k \in 1..Len(present) |-> <<present[k], dirs[name].mtime[present[k]]>>]
    IN Md5(IF checksum_data = <<>> THEN <<<<name, 0>>>> ELSE checksum_data)

\* calculate_all_checksums
calculate_all_checksums(dirs, sprint_folders) ==
    [n \in {sprint_folders[k] : k \in 1..Len(sprint_folders)} |->
        calculate_sprint_checksum(dirs, n)]

\* The cache file: absent, text that is not JSON (a truncated write), bytes
\* that are not UTF-8, or the JSON text of a value.
AbsentFile == [kind |-> "absent"]
NotJsonFile == [kind |-> "not_json"]
NotUtf8File == [kind |-> "not_utf8"]

\* json.dumps and json.loads.  The values written are dicts with string
\* keys holding ints, bools, strings and such dicts, which JSON gives back
\* unchanged; a file written from outside may hold the text of any JSON
\* value.
json_dumps(value) == [kind |-> "json", value |-> value]
json_loads(file) == file.value

\* Cache files of well-formed JSON that is not a cache record: [1], [],
\* "abc", "", 5, 0 and {"version": 1}.
NonRecordValues ==
    {JsonValue("array", 1), JsonValue("array", 0),
     JsonValue("string", 3), JsonValue("string", 0),
     JsonValue("number", 5), JsonValue("number", 0),
     [version |-> 1]}

NonRecordFiles == {json_dumps(v) : v \in NonRecordValues}

\* AnalyticsCache._load_cache (called by __init__).  read_text raises
\* UnicodeDecodeError on bytes that are not UTF-8; it is a ValueError, which
\* `except (json.JSONDecodeError, IOError)` does not catch.
load_cache(file) ==
    IF file.kind = "absent" THEN [raised |-> FALSE, cache_data |-> <<>>]
    ELSE IF file.kind = "not_utf8" THEN [raised |-> TRUE, cache_data |-> <<>>]
    ELSE IF file.kind = "not_json" THEN [raised |-> FALSE, cache_data |-> <<>>]
    ELSE [raised |-> FALSE, cache_data |-> json_loads(file)]

\* self.cache_data.get(...) at lines 77 of analytics_cache.py and 145 of
\* analytics.py, reached when cache_data is truthy: AttributeError for a
\* list, a str or a number, which have no attribute get.
no_attribute_get(cache_data) == Truthy(cache_data) /\ ~IsDict(cache_data)

\* AnalyticsCache.save_cache: the file written.
save_cache(metrics, checksums, time) ==
    json_dumps([last_calculated |-> time,
                sprint_count |-> Cardinality(DOMAIN checksums),
                metrics |-> metrics,
                sprint_checksums |-> checksums])

\* AnalyticsCache.get_cached_metrics
get_cached_metrics(cache_data) == DictGet(cache_data, "metrics", None)

(***************************************************************************)
(* analytics.py                                                            *)
(***************************************************************************)
\* The dict get_metrics returns when no sprint folder is found.
no_sprints_metrics ==
    [counts |-> [total_sprints |-> 0],
     duration |-> [has_duration_data |-> FALSE],
     tasks |-> [total_tasks |-> 0],
     quality |-> [process_adoption_rate |-> 0],
     trends |-> [has_trend_data |-> FALSE],
     summary |-> [health_score |-> 0, productivity_level |-> "none",
                  process_maturity |-> "none", overall_status |-> "no_data"]]

\* The outcome of a call: path is the branch it returned from, or the name
\* of the exception it raised.
Outcome(path, value, file, parsed, saved) ==
    [path |-> path, ret |-> value, file |-> file, parsed |-> parsed, saved |-> saved]

Exceptions == {"UnicodeDecodeError", "StatisticsError", "AttributeError"}

\* A plausible slip: force_refresh is not looked at.
use_cached_ignoring_force(use_cache, force_refresh, cache_data, current_checksums) ==
    /\ use_cache
    /\ is_cache_valid(cache_data, current_checksums)
    /\ get_cached_metrics(cache_data) # None

\* Lines 56-60: the cached metrics are returned.  `if cached_metrics:` is
\* false for None and for an empty dict, both <<>> here.
use_cached(use_cache, force_refresh, cache_data, current_checksums) ==
    /\ use_cache
    /\ ~force_refresh
    /\ is_cache_valid(cache_data, current_checksums)
    /\ get_cached_metrics(cache_data) # None

\* Lines 62-70: parse, calculate, save, return.
fresh_metrics(dirs, file, current_checksums, time) ==
    LET computed == calculate_all_metrics(parse_all_sprints(dirs)) IN
    IF computed.raised THEN Outcome(computed.value, None, file, TRUE, FALSE)
    ELSE Outcome("recomputed", Some(computed.value),
                 save_cache(computed.value, current_checksums, time), TRUE, TRUE)

\* Lines 31-51: the early return when scan_sprint_folders finds nothing.
no_sprints_found(file, time) ==
    Outcome("no_sprints", Some(no_sprints_metrics), file, FALSE, FALSE)

\* get_metrics: what it returns (ret), the cache file it leaves (file), the
\* path it took, whether it parsed the sprints and whether it wrote the file.
get_metrics(dirs, file, time, use_cache, force_refresh) ==
    LET loaded == load_cache(file) IN
    IF loaded.raised THEN Outcome("UnicodeDecodeError", None, file, FALSE, FALSE)
    ELSE LET sprint_folders == scan_sprint_folders(dirs) IN
         IF sprint_folders = <<>> THEN no_sprints_found(file, time)
         ELSE LET current_checksums == calculate_all_checksums(dirs, sprint_folders) IN
              IF use_cache /\ ~force_refresh /\ no_attribute_get(loaded.cache_data)
              THEN Outcome("AttributeError", None, file, FALSE, FALSE)
              ELSE IF use_cached(use_cache, force_refresh, loaded.cache_data, current_checksums)
              THEN Outcome("cached", Some(get_cached_metrics(loaded.cache_data)),
                           file, FALSE, FALSE)
              ELSE fresh_metrics(dirs, file, current_checksums, time)

\* clear_analytics_cache: the cache file it leaves.
clear_analytics_cache(file) ==
    IF load_cache(file).raised
    THEN Outcome("UnicodeDecodeError", None, file, FALSE, FALSE)
    ELSE Outcome("cleared", None, AbsentFile, FALSE, FALSE)

\* get_cache_info: None, or last_calculated and sprint_count (cache_age, a
\* text made from the wall clock, is left out).
get_cache_info(file) ==
    LET loaded == load_cache(file) IN
    IF loaded.raised THEN Outcome("UnicodeDecodeError", None, file, FALSE, FALSE)
    ELSE IF ~Truthy(loaded.cache_data) THEN Outcome("no_cache", None, file, FALSE, FALSE)
    ELSE IF no_attribute_get(loaded.cache_data)
    THEN Outcome("AttributeError", None, file, FALSE, FALSE)
    ELSE Outcome("info",
            Some([last_calculated |-> DictGetOpt(loaded.cache_data, "last_calculated"),
                  sprint_count |-> DictGetOpt(loaded.cache_data, "sprint_count")]),
            file, FALSE, FALSE)

(***************************************************************************)
(* The events: changes made to the sprint folders and to the cache file    *)
(* from outside, and the calls of the core's interface.                    *)
(***************************************************************************)
Event(op, args, path, parsed, saved) ==
    [op |-> op, args |-> args, path |-> path, parsed |-> parsed, saved |-> saved]

NoEvent == Event("none", <<>>, "", FALSE, FALSE)

\* A plausible slip: a get_metrics that finds a folder without project.md
\* writes one.
folders_after_with_project_md(op, dirs) ==
    IF op = "get_metrics"
    THEN [n \in FolderNames |->
            IF dirs[n].exists /\ StartsWithSprintDash(n)
            THEN [dirs[n] EXCEPT !.mtime[PROJECT_MD] = IF @ = 0 THEN 1 ELSE @]
            ELSE dirs[n]]
    ELSE dirs

\* The sprint folders after a call of the core.  get_metrics, get_sprint,
\* list_sprints, get_cache_info and clear_analytics_cache apply iterdir,
\* exists, is_dir, stat and read_text to them; the write_text and mkdir of
\* save_cache and the unlink of clear_cache go to the cache file and its
\* parent directory.
folders_after(op, dirs) == dirs

\* A change of the sprint folders: it is counted, and the cache file is no
\* longer the one get_metrics saved for these folders.
Changed(dirs) ==
    /\ nchanges < MaxChanges
    /\ nchanges' = nchanges + 1
    /\ fs' = dirs
    /\ call' = Event("change", <<>>, "", FALSE, FALSE)
    /\ ret' = None
    /\ fresh' = FALSE
    /\ UNCHANGED <<cacheFile, now, lastRead>>

AddSprintFolder(n) ==
    /\ ~fs[n].exists
    /\ Changed([fs EXCEPT ![n] = EmptyFolder])

RemoveSprintFolder(n) ==
    /\ fs[n].exists
    /\ Changed([fs EXCEPT ![n] = NoFolder])

\* The folder n with file f at modification time t; c tells whether the
\* task of a plan.md is checked.
WrittenFile(n, f, t, c) ==
    [fs EXCEPT ![n].mtime[f] = t,
               ![n].checked = IF f = FILE_PLAN THEN c ELSE @]

\* A file is created.  Modification times are counted per file: 1 at its
\* creation, one more at each modification.
CreateFile(n, f, c) ==
    /\ fs[n].exists
    /\ fs[n].mtime[f] = 0
    /\ f # FILE_PLAN => c = FALSE
    /\ Changed(WrittenFile(n, f, 1, c))

\* A file is written again: its mtime changes.
ModifyFile(n, f, c) ==
    /\ fs[n].exists
    /\ fs[n].mtime[f] > 0
    /\ fs[n].mtime[f] < MaxMtime
    /\ f # FILE_PLAN => c = FALSE
    /\ Changed(WrittenFile(n, f, fs[n].mtime[f] + 1, c))

DeleteFile(n, f) ==
    /\ fs[n].exists
    /\ fs[n].mtime[f] > 0
    /\ Changed(WrittenFile(n, f, 0, FALSE))

\* The cache file is damaged from outside.
CorruptCacheFile(file) ==
    /\ cacheFile # file
    /\ cacheFile' = file
    /\ call' = Event("corrupt", <<>>, "", FALSE, FALSE)
    /\ ret' = None
    /\ fresh' = FALSE
    /\ UNCHANGED <<fs, now, nchanges, lastRead>>

GetMetrics(use_cache, force_refresh) ==
    LET o == get_metrics(fs, cacheFile, now, use_cache, force_refresh) IN
    /\ o.saved => now < MaxNow
    /\ cacheFile' = o.file
    /\ now' = IF o.saved THEN now + 1 ELSE now
    /\ call' = Event("get_metrics",
                     [use_cache |-> use_cache, force_refresh |-> force_refresh],
                     o.path, o.parsed, o.saved)
    /\ ret' = o.ret
    /\ fresh' = (o.saved \/ fresh)
    /\ fs' = folders_after("get_metrics", fs)
    /\ UNCHANGED <<nchanges, lastRead>>

\* What a read of the folder leaves in lastRead: the files present, the
\* status read, and the status the read before it gave.
ReadOf(sprint) ==
    [files |-> {f \in SprintFiles : FileExists(fs[sprint.id], f)},
     status |-> sprint.status,
     before |-> IF lastRead[sprint.id] = None THEN "none"
                ELSE lastRead[sprint.id][1].status]

GetSprint(sprint_id) ==
    LET sprint == get_sprint(sprint_id) IN
    /\ call' = Event("get_sprint", [sprint_id |-> sprint_id], "", FALSE, FALSE)
    /\ ret' = IF sprint = None THEN None ELSE Some({sprint[1]})
    /\ lastRead' = [lastRead EXCEPT ![sprint_id] =
                       IF sprint = None THEN None ELSE Some(ReadOf(sprint[1]))]
    /\ fs' = folders_after("get_sprint", fs)
    /\ UNCHANGED <<cacheFile, now, nchanges, fresh>>

ListSprints ==
    LET sprints == list_sprints IN
    /\ call' = Event("list_sprints", <<>>, "", FALSE, FALSE)
    /\ ret' = Some(sprints)
    /\ lastRead' = [n \in FolderNames |->
                       IF \E sp \in sprints : sp.id = n
                       THEN Some(ReadOf(CHOOSE sp \in sprints : sp.id = n))
                       ELSE lastRead[n]]
    /\ fs' = folders_after("list_sprints", fs)
    /\ UNCHANGED <<cacheFile, now, nchanges, fresh>>

ClearAnalyticsCache ==
    LET o == clear_analytics_cache(cacheFile) IN
    /\ cacheFile' = o.file
    /\ call' = Event("clear_analytics_cache", <<>>, o.path, FALSE, FALSE)
    /\ ret' = None
    /\ fresh' = (fresh /\ o.path # "cleared")
    /\ fs' = folders_after("clear_analytics_cache", fs)
    /\ UNCHANGED <<now, nchanges, lastRead>>

GetCacheInfo ==
    LET o == get_cache_info(cacheFile) IN
    /\ call' = Event("get_cache_info", <<>>, o.path, FALSE, FALSE)
    /\ ret' = o.ret
    /\ fs' = folders_after("get_cache_info", fs)
    /\ UNCHANGED <<cacheFile, now, nchanges, fresh, lastRead>>

InitCore ==
    /\ fs = [n \in FolderNames |-> NoFolder]
    /\ cacheFile = AbsentFile
    /\ now = 0
    /\ nchanges = 0
    /\ call = NoEvent
    /\ ret = None
    /\ fresh = FALSE
    /\ lastRead = [n \in FolderNames |-> None]

IdleCore == InitCore

(***************************************************************************)
(* get_metrics (analytics.py lines 31-70) statement by statement, run by   *)
(* concurrent invocations while sprint folders are added and removed.      *)
(***************************************************************************)
GmFolders == {SprintFolderNames[k] : k \in 1..NumGmFolders}
Procs == 1..NumProcs

\* The sprints directory holding the given folders, each without files.
GmDirs(folders) == [n \in GmFolders |-> IF n \in folders THEN EmptyFolder ELSE NoFolder]

\* The locals of an invocation that has not started.  A local is kept
\* from the statement that assigns it to the last statement that reads it.
IdleProc ==
    [pc |-> "idle", cache_data |-> <<>>, sprint_folders |-> <<>>,
     current_checksums |-> <<>>, sprint_data |-> <<>>, metrics |-> <<>>, path |-> ""]

\* The invocation has returned, or raised, on the given path.
ProcDone(path) == [IdleProc EXCEPT !.pc = "done", !.path = path]

\* Line 34: cache = AnalyticsCache(...) reads the cache file.
GmLoadCache(p) ==
    /\ gm_proc[p].pc \in {"idle", "done"}
    /\ gm_proc' = [gm_proc EXCEPT ![p] =
          [IdleProc EXCEPT !.pc = "scan", !.cache_data = load_cache(gm_cache).cache_data]]
    /\ UNCHANGED <<gm_fs, gm_cache>>

\* Lines 37-51: sprint_folders = scan_sprint_folders(stride_dir), and the
\* early return when there is none.
GmScanFolders(p) ==
    /\ gm_proc[p].pc = "scan"
    /\ LET sprint_folders == scan_sprint_folders(GmDirs(gm_fs)) IN
       gm_proc' = [gm_proc EXCEPT ![p] =
          IF sprint_folders = <<>> THEN ProcDone("no_sprints")
          ELSE [@ EXCEPT !.pc = "checksums", !.sprint_folders = sprint_folders]]
    /\ UNCHANGED <<gm_fs, gm_cache>>

\* Lines 54-60: the checksums of the folders scanned, and the return of the
\* cached metrics.  use_cache and force_refresh, the invocation's arguments,
\* are read here and nowhere else.
GmChecksums(p, use_cache, force_refresh) ==
    /\ gm_proc[p].pc = "checksums"
    /\ LET proc == gm_proc[p]
           current_checksums == calculate_all_checksums(GmDirs(gm_fs), proc.sprint_folders)
       IN gm_proc' = [gm_proc EXCEPT ![p] =
            IF use_cached(use_cache, force_refresh, proc.cache_data, current_checksums)
            THEN ProcDone("cached")
            ELSE [IdleProc EXCEPT !.pc = "parse", !.current_checksums = current_checksums]]
    /\ UNCHANGED <<gm_fs, gm_cache>>

\* Lines 63-65: parse_all_sprints scans the folders again and parses them;
\* the metrics are calculated from what it found.
GmParse(p) ==
    /\ gm_proc[p].pc = "parse"
    /\ LET sprint_data == parse_all_sprints(GmDirs(gm_fs))
           computed == calculate_all_metrics(sprint_data)
       IN gm_proc' = [gm_proc EXCEPT ![p] =
            IF computed.raised THEN ProcDone(computed.value)
            ELSE [@ EXCEPT !.pc = "save", !.sprint_data = sprint_data,
                           !.metrics = computed.value]]
    /\ UNCHANGED <<gm_fs, gm_cache>>

\* Lines 68-70: cache.save_cache(metrics, current_checksums); return metrics.
\* last_calculated is not followed here.
GmSave(p) ==
    /\ gm_proc[p].pc = "save"
    /\ gm_cache' = save_cache(gm_proc[p].metrics, gm_proc[p].current_checksums, 0)
    /\ gm_proc' = [gm_proc EXCEPT ![p] = ProcDone("recomputed")]
    /\ UNCHANGED gm_fs

\* A sprint folder is created, or removed, by another process.
GmAddFolder(n) ==
    /\ n \notin gm_fs
    /\ gm_fs' = gm_fs \cup {n}
    /\ UNCHANGED <<gm_cache, gm_proc>>

GmRemoveFolder(n) ==
    /\ n \in gm_fs
    /\ gm_fs' = gm_fs \ {n}
    /\ UNCHANGED <<gm_cache, gm_proc>>

\* No sprint folder, no cache file, no invocation started.
InitGm ==
    /\ gm_fs = {}
    /\ gm_cache = AbsentFile
    /\ gm_proc = [p \in Procs |-> IdleProc]

IdleGm ==
    /\ gm_fs = {}
    /\ gm_cache = AbsentFile
    /\ gm_proc = <<>>

(***************************************************************************)
(* The specifications.                                                     *)
(***************************************************************************)
\* The sprint folders, the cache file and the calls of the analytics API.
Init == IdleParse /\ IdleProgress /\ IdleValid /\ IdleStatus /\ IdleMetrics /\ IdleMarkdown /\ IdleRace /\ IdleSession /\ IdleManager /\ IdleGm /\ InitCore

Others ==
    UNCHANGED <<parseVars, progressVars, validVars, statusVars, metricsVars,
                markdownVars, raceVars, sessionVars, managerVars, gmVars>>

\* A change of the sprint folders.
Change ==
    \/ \E n \in FolderNames : AddSprintFolder(n)
    \/ \E n \in FolderNames : RemoveSprintFolder(n)
    \/ \E n \in FolderNames, f \in SprintFiles, c \in BOOLEAN : CreateFile(n, f, c)
    \/ \E n \in FolderNames, f \in SprintFiles, c \in BOOLEAN : ModifyFile(n, f, c)
    \/ \E n \in FolderNames, f \in SprintFiles : DeleteFile(n, f)

Next ==
    \/ Change /\ Others
    \/ \E file \in {NotJsonFile, NotUtf8File} : CorruptCacheFile(file) /\ Others
    \/ \E u \in BOOLEAN, r \in BOOLEAN : GetMetrics(u, r) /\ Others
    \/ ClearAnalyticsCache /\ Others
    \/ GetCacheInfo /\ Others

Spec == Init /\ [][Next]_vars

\* The sprint folders and the calls of the SprintManager.
NextSprints ==
    \/ Change /\ Others
    \/ \E n \in FolderNames : GetSprint(n) /\ Others
    \/ ListSprints /\ Others

SpecSprints == Init /\ [][NextSprints]_vars

\* The calls of the analytics API and of SprintManager, in any order, with
\* up to MaxCoreChanges changes of the sprint folders.
NextCore ==
    \/ nchanges < MaxCoreChanges /\ Change /\ Others
    \/ \E file \in {NotJsonFile, NotUtf8File} : CorruptCacheFile(file) /\ Others
    \/ \E u \in BOOLEAN, r \in BOOLEAN : GetMetrics(u, r) /\ Others
    \/ ClearAnalyticsCache /\ Others
    \/ GetCacheInfo /\ Others
    \/ \E n \in FolderNames : GetSprint(n) /\ Others
    \/ ListSprints /\ Others

\* A project with one sprint folder holding a plan.md, and no cache file.
InitCoreCalls ==
    /\ IdleParse /\ IdleProgress /\ IdleValid /\ IdleStatus /\ IdleMetrics
    /\ IdleMarkdown /\ IdleRace /\ IdleSession /\ IdleManager /\ IdleGm
    /\ fs = [n \in FolderNames |->
                IF n = SprintFolderNames[1] THEN DirWith({FILE_PLAN}) ELSE NoFolder]
    /\ cacheFile = AbsentFile
    /\ now = 0
    /\ nchanges = 0
    /\ call = NoEvent
    /\ ret = None
    /\ fresh = FALSE
    /\ lastRead = [n \in FolderNames |-> None]

SpecCore == InitCoreCalls /\ [][NextCore]_vars

\* The calls of the analytics API on a project with one sprint folder, with
\* up to MaxCoreChanges changes of the sprint folders, and a cache file that
\* is replaced from outside by JSON text that is not a cache record.
NextCacheFile ==
    \/ nchanges < MaxCoreChanges /\ Change /\ Others
    \/ \E file \in NonRecordFiles : CorruptCacheFile(file) /\ Others
    \/ \E u \in BOOLEAN, r \in BOOLEAN : GetMetrics(u, r) /\ Others
    \/ ClearAnalyticsCache /\ Others
    \/ GetCacheInfo /\ Others

SpecCacheFile == InitCoreCalls /\ [][NextCacheFile]_vars

\* Concurrent invocations of get_metrics, each statement by statement,
\* while sprint folders are added and removed.
InitConcurrent ==
    /\ IdleParse /\ IdleProgress /\ IdleValid /\ IdleStatus /\ IdleMetrics
    /\ IdleMarkdown /\ IdleRace /\ IdleSession /\ IdleManager /\ InitGm /\ IdleCore

OthersConcurrent ==
    UNCHANGED <<parseVars, progressVars, validVars, statusVars, metricsVars,
                markdownVars, raceVars, sessionVars, managerVars, coreVars>>

NextConcurrent ==
    \/ \E p \in Procs : GmLoadCache(p) /\ OthersConcurrent
    \/ \E p \in Procs : GmScanFolders(p) /\ OthersConcurrent
    \/ \E p \in Procs, u \in BOOLEAN, r \in BOOLEAN : GmChecksums(p, u, r) /\ OthersConcurrent
    \/ \E p \in Procs : GmParse(p) /\ OthersConcurrent
    \/ \E p \in Procs : GmSave(p) /\ OthersConcurrent
    \/ \E n \in GmFolders : GmAddFolder(n) /\ OthersConcurrent
    \/ \E n \in GmFolders : GmRemoveFolder(n) /\ OthersConcurrent

SpecConcurrent == InitConcurrent /\ [][NextConcurrent]_vars

\* One call of _determine_status on a directory with any set of files.
InitStatusCall == IdleParse /\ IdleProgress /\ IdleValid /\ InitStatus /\ IdleMetrics /\ IdleMarkdown /\ IdleRace /\ IdleSession /\ IdleManager /\ IdleGm /\ IdleCore

NextStatus ==
    DetermineStatusCall
       /\ UNCHANGED <<parseVars, progressVars, validVars, metricsVars, markdownVars, raceVars, sessionVars, managerVars, gmVars, coreVars>>

SpecStatus == InitStatusCall /\ [][NextStatus]_vars

\* One run of parse_strides on a plan of up to MaxLen lines.
InitParseRun == InitParse /\ IdleProgress /\ IdleValid /\ IdleStatus /\ IdleMetrics /\ IdleMarkdown /\ IdleRace /\ IdleSession /\ IdleManager /\ IdleGm /\ IdleCore

NextParse ==
    \/ ParseStep /\ UNCHANGED <<progressVars, validVars, statusVars, metricsVars, markdownVars, raceVars, sessionVars, managerVars, gmVars, coreVars>>
    \/ ParseReturn /\ UNCHANGED <<progressVars, validVars, statusVars, metricsVars, markdownVars, raceVars, sessionVars, managerVars, gmVars, coreVars>>

SpecParse == InitParseRun /\ [][NextParse]_vars

\* One run of parse_strides on a plan of up to MaxPlanLen lines.
InitStridesRun == InitStrides /\ IdleProgress /\ IdleValid /\ IdleStatus /\ IdleMetrics /\ IdleMarkdown /\ IdleRace /\ IdleSession /\ IdleManager /\ IdleGm /\ IdleCore

SpecStrides == InitStridesRun /\ [][NextParse]_vars

\* One call of get_sprint on a sprint path, with or without progress.
InitManagerCall ==
    IdleParse /\ IdleProgress /\ IdleValid /\ IdleStatus /\ IdleMetrics
        /\ IdleMarkdown /\ IdleRace /\ IdleSession /\ InitManager /\ IdleGm /\ IdleCore

OthersManager ==
    UNCHANGED <<parseVars, progressVars, validVars, statusVars, metricsVars,
                markdownVars, raceVars, sessionVars, gmVars, coreVars>>

NextManager == \E include_progress \in BOOLEAN : GetSprintCall(include_progress) /\ OthersManager

SpecManager == InitManagerCall /\ [][NextManager]_vars

\* One read of current_stride on a SprintProgress of up to MaxStrides strides.
InitProgressRead == IdleParse /\ InitProgress /\ IdleValid /\ IdleStatus /\ IdleMetrics /\ IdleMarkdown /\ IdleRace /\ IdleSession /\ IdleManager /\ IdleGm /\ IdleCore

NextProgress ==
    ReadCurrentStride /\ UNCHANGED <<parseVars, validVars, statusVars, metricsVars, markdownVars, raceVars, sessionVars, managerVars, gmVars, coreVars>>

SpecProgress == InitProgressRead /\ [][NextProgress]_vars

\* One call of is_cache_valid.
InitValidCall == IdleParse /\ IdleProgress /\ InitValid /\ IdleStatus /\ IdleMetrics /\ IdleMarkdown /\ IdleRace /\ IdleSession /\ IdleManager /\ IdleGm /\ IdleCore

NextValid ==
    IsCacheValidCall /\ UNCHANGED <<parseVars, progressVars, statusVars, metricsVars, markdownVars, raceVars, sessionVars, managerVars, gmVars, coreVars>>

SpecValid == InitValidCall /\ [][NextValid]_vars

\* One call of a method of MetricsCalculator on a list of SprintData.
InitMetricsCall ==
    IdleParse /\ IdleProgress /\ IdleValid /\ IdleStatus /\ InitMetrics /\ IdleMarkdown /\ IdleRace /\ IdleSession /\ IdleManager /\ IdleGm /\ IdleCore

OthersMetrics ==
    UNCHANGED <<parseVars, progressVars, validVars, statusVars, markdownVars,
                raceVars, sessionVars, managerVars, gmVars, coreVars>>

NextMetrics ==
    \/ CalculateAllMetrics /\ OthersMetrics
    \/ CalculateTrends /\ OthersMetrics
    \/ CalculateTaskMetrics /\ OthersMetrics
    \/ CalculateSummary /\ OthersMetrics

SpecMetrics == InitMetricsCall /\ [][NextMetrics]_vars

\* One call of calculate_duration_metrics on a list of sprints.
InitDurationCall ==
    IdleParse /\ IdleProgress /\ IdleValid /\ IdleStatus /\ InitDuration
        /\ IdleMarkdown /\ IdleRace /\ IdleSession /\ IdleManager /\ IdleGm /\ IdleCore

NextDuration == CalculateDurationMetrics /\ OthersMetrics

SpecDuration == InitDurationCall /\ [][NextDuration]_vars

\* parse_implementation_logs called once on a document, with any limit.
InitLogsCall ==
    IdleParse /\ IdleProgress /\ IdleValid /\ IdleStatus /\ IdleMetrics
        /\ InitLogs /\ IdleRace /\ IdleSession /\ IdleManager /\ IdleGm /\ IdleCore

OthersMarkdown ==
    UNCHANGED <<parseVars, progressVars, validVars, statusVars, metricsVars,
                raceVars, sessionVars, managerVars, gmVars, coreVars>>

NextLogs == ParseImplementationLogs /\ OthersMarkdown

SpecLogs == InitLogsCall /\ [][NextLogs]_vars

\* extract_section called once on a document, for a heading and a level.
InitSectionCall ==
    IdleParse /\ IdleProgress /\ IdleValid /\ IdleStatus /\ IdleMetrics
        /\ InitSection /\ IdleRace /\ IdleSession /\ IdleManager /\ IdleGm /\ IdleCore

NextSection == ExtractSection /\ OthersMarkdown

SpecSection == InitSectionCall /\ [][NextSection]_vars

\* list_sprints runs once, statement by statement, while directories are
\* removed.
InitRaceRun ==
    IdleParse /\ IdleProgress /\ IdleValid /\ IdleStatus /\ IdleMetrics
        /\ IdleMarkdown /\ InitRace /\ IdleSession /\ IdleManager /\ IdleGm /\ IdleCore

OthersRace ==
    UNCHANGED <<parseVars, progressVars, validVars, statusVars, metricsVars,
                markdownVars, sessionVars, managerVars, gmVars, coreVars>>

NextRace ==
    \/ ListIterdir /\ OthersRace
    \/ ListNextItem /\ OthersRace
    \/ GetSprintExists /\ OthersRace
    \/ GetSprintStatus /\ OthersRace
    \/ GetSprintStat /\ OthersRace
    \/ GetSprintTitle /\ OthersRace
    \/ ListReturn /\ OthersRace
    \/ RemoveSprintDir /\ OthersRace

SpecRace == InitRaceRun /\ [][NextRace]_vars

\* Up to MaxCalls calls of the parsing methods, each on any text.
InitSessionRun ==
    IdleParse /\ IdleProgress /\ IdleValid /\ IdleStatus /\ IdleMetrics
        /\ IdleMarkdown /\ IdleRace /\ InitSession /\ IdleManager /\ IdleGm /\ IdleCore

OthersSession ==
    UNCHANGED <<parseVars, progressVars, validVars, statusVars, metricsVars,
                markdownVars, raceVars, managerVars, gmVars, coreVars>>

NextSession ==
    \E method \in ParserMethods : \E text \in SessionTexts(method) :
        ParserCall(method, text) /\ OthersSession

SpecSession == InitSessionRun /\ [][NextSession]_vars

(***************************************************************************)
(* The properties.                                                         *)
(***************************************************************************)

\* C1: parse_strides is total: on every finite sequence of lines, a line
\* that starts with '###' and holds the word 'Stride' without matching the
\* stride-heading pattern included, each iteration of the scan takes one
\* line, so the scan reaches the end of the input after Len(lines)
\* iterations and returns.
C1_ParseStridesAdvances == iters = i

\* C2: for every set of files present in a sprint directory the status is
\* COMPLETED when retrospective.md exists, else ACTIVE when
\* implementation.md exists, else PROPOSED, with or without plan.md and for
\* the empty directory; REVIEW is never returned.
C2_StatusFromFiles ==
    pcStatus = "returned" /\ st_ret # "none" =>
        /\ st_ret = IF FILE_RETROSPECTIVE \in st_files THEN "completed"
                    ELSE IF FILE_IMPLEMENTATION \in st_files THEN "active"
                    ELSE "proposed"
        /\ st_ret # "review"

C2_Witness ==
    /\ pcStatus = "returned"
    /\ st_ret = "active"
    /\ FILE_IMPLEMENTATION \in st_files
    /\ FILE_PLAN \notin st_files

\* C3: the status is never stored.  Whatever creations and deletions came
\* before, the status get_sprint and list_sprints return depends only on
\* the files present at the read: two folders last read with the same files
\* were given the same status, and a sprint read without retrospective.md,
\* one read as COMPLETED before the file was deleted included, is ACTIVE or
\* PROPOSED.
C3_StatusNeverStored ==
    \A n \in FolderNames : lastRead[n] # None =>
        /\ \A m \in FolderNames :
              lastRead[m] # None /\ lastRead[m][1].files = lastRead[n][1].files
                 => lastRead[m][1].status = lastRead[n][1].status
        /\ FILE_RETROSPECTIVE \notin lastRead[n][1].files
              => lastRead[n][1].status \in {"active", "proposed"}

C3_Witness ==
    \E n \in FolderNames :
        /\ call.op \in {"get_sprint", "list_sprints"}
        /\ lastRead[n] # None
        /\ lastRead[n][1].before = "completed"
        /\ lastRead[n][1].status \in {"active", "proposed"}
        /\ ~FileExists(fs[n], FILE_RETROSPECTIVE)

\* The strides of the progress that are not complete, as positions.
OpenStrides == {k \in 1..Len(progress.strides) :
                   completed_tasks(progress.strides[k]) < total_tasks(progress.strides[k])}

\* C4 as stated: current_stride is the first stride in stride-number order
\* with completed_tasks < total_tasks, null when there is none, also when
\* the strides are out of numeric order in the document.
C4_FirstByStrideNumber ==
    pcProgress = "read" /\ progress.strides # <<>> =>
        IF OpenStrides = {} THEN currentStrideRet = None
        ELSE /\ currentStrideRet # None
             /\ \A k \in OpenStrides :
                   currentStrideRet[1].stride_number <= progress.strides[k].stride_number

\* C4, amended: current_stride is the first stride in document order (the
\* order of progress.strides) with completed_tasks < total_tasks, and null
\* when every stride is complete or there is no stride.
C4_FirstInDocumentOrder ==
    pcProgress = "read" /\ progress.strides # <<>> =>
        /\ currentStrideRet = None <=> OpenStrides = {}
        /\ currentStrideRet # None =>
              \E k \in OpenStrides :
                 /\ progress.strides[k] = currentStrideRet[1]
                 /\ \A m \in 1..(k - 1) : m \notin OpenStrides

C4_Witness ==
    /\ pcProgress = "read"
    /\ currentStrideRet # None
    /\ \E k \in OpenStrides :
          progress.strides[k].stride_number < currentStrideRet[1].stride_number

\* C5: is_cache_valid is true exactly when a cache record is loaded and its
\* sprint_checksums map equals the current one as a map: the same sprint
\* ids, and the same checksum for each.
StoredChecksums ==
    IF "sprint_checksums" \in DOMAIN cv_cache_data
    THEN cv_cache_data["sprint_checksums"] ELSE <<>>

C5_ValidIffSameMap ==
    pcValid = "returned" /\ (cv_cache_data # <<>> \/ cv_current # <<>>) =>
        (cv_ret <=> /\ cv_cache_data # <<>>
                    /\ DOMAIN StoredChecksums = DOMAIN cv_current
                    /\ \A id \in DOMAIN cv_current : StoredChecksums[id] = cv_current[id])

C5_Witness ==
    /\ pcValid = "returned"
    /\ cv_ret
    /\ Cardinality(DOMAIN cv_current) >= 2

\* The files whose changes C6 lists.
TrackedFiles == {PROJECT_MD, FILE_PLAN, FILE_IMPLEMENTATION, FILE_RETROSPECTIVE}

\* A step that adds or removes a sprint folder, or creates, deletes or
\* modifies a tracked file of a sprint.
ListedChange ==
    \E n \in FolderNames :
        \/ fs'[n].exists # fs[n].exists
        \/ \E f \in TrackedFiles : fs'[n].mtime[f] # fs[n].mtime[f]

\* C6: once get_metrics has saved a cache record, any single change that
\* adds or removes a sprint folder, or creates, deletes or modifies one of
\* project.md, plan.md, implementation.md, retrospective.md in a sprint,
\* makes the cache invalid: the next get_metrics does not return the cached
\* metrics.
C6_AnyChangeInvalidates ==
    [][fresh /\ ListedChange =>
          /\ ~is_cache_valid(load_cache(cacheFile').cache_data,
                             calculate_all_checksums(fs', scan_sprint_folders(fs')))
          /\ get_metrics(fs', cacheFile', now', TRUE, FALSE).path # "cached"]_vars

\* The cache is valid for the current checksums: a record is stored whose
\* sprint_checksums are the checksums of the sprint folders found.
CacheIsCurrent ==
    /\ cacheFile.kind = "json"
    /\ "sprint_checksums" \in DOMAIN cacheFile.value
    /\ cacheFile.value.sprint_checksums
          = calculate_all_checksums(fs, scan_sprint_folders(fs))

\* C7: with a sprint folder found, get_metrics returns the cached metrics as
\* they are stored, parsing no sprint and leaving the cache file (its
\* last_calculated included) as it was, whenever use_cache is true,
\* force_refresh is false and the cache is valid for the current checksums;
\* with force_refresh true or use_cache false it never returns the cached
\* metrics.
C7_CacheHit ==
    [][call'.op = "get_metrics" =>
          /\ (/\ call'.args.use_cache
              /\ ~call'.args.force_refresh
              /\ scan_sprint_folders(fs) # <<>>
              /\ CacheIsCurrent)
             => /\ call'.path = "cached"
                /\ ret' = Some(cacheFile.value.metrics)
                /\ cacheFile' = cacheFile
                /\ ~call'.parsed
                /\ ~call'.saved
          /\ (call'.args.force_refresh \/ ~call'.args.use_cache)
             => call'.path # "cached"]_vars

C7_Witness ==
    /\ call.op = "get_metrics"
    /\ call.path = "cached"
    /\ call.args.use_cache
    /\ ~call.args.force_refresh
    /\ CacheIsCurrent
    /\ ret = Some(cacheFile.value.metrics)

\* C8: a get_metrics that does not take the cache-hit path, with a sprint
\* folder existing, parses the sprints, computes the metrics and overwrites
\* the cache record, its sprint_checksums being the checksums computed in
\* the call and its sprint_count their number; a get_metrics(use_cache =
\* true, force_refresh = false) that follows it with no change between is a
\* cache hit returning the same metrics.
C8_RecomputeSavesAndHits ==
    [][/\ (/\ call'.op = "get_metrics"
           /\ call'.path # "cached"
           /\ \E n \in FolderNames : fs[n].exists)
          => /\ call'.parsed
             /\ call'.saved
             /\ ret' # None
             /\ cacheFile'.kind = "json"
             /\ cacheFile'.value.metrics = ret'[1]
             /\ cacheFile'.value.sprint_checksums
                   = calculate_all_checksums(fs, scan_sprint_folders(fs))
             /\ cacheFile'.value.sprint_count
                   = Cardinality(DOMAIN cacheFile'.value.sprint_checksums)
       /\ (/\ call.op = "get_metrics"
           /\ call.saved
           /\ call'.op = "get_metrics"
           /\ call'.args.use_cache
           /\ ~call'.args.force_refresh)
          => /\ call'.path = "cached"
             /\ ret' = ret]_vars

\* C9: when no sprint folder is found, get_metrics returns the fixed empty
\* metrics (total_sprints 0, health_score 0, overall_status 'no_data') and
\* leaves the cache file as it was, whatever use_cache and force_refresh are
\* and whatever the cache file held.
C9_NoSprintsLeavesCache ==
    [][call'.op = "get_metrics" /\ scan_sprint_folders(fs) = <<>> =>
          /\ ret' # None
          /\ ret'[1].counts.total_sprints = 0
          /\ ret'[1].summary.health_score = 0
          /\ ret'[1].summary.overall_status = "no_data"
          /\ cacheFile' = cacheFile
          /\ ~call'.saved]_vars

\* The cache file is there and its content is not parseable JSON.
NotParseableJson == cacheFile.kind \in {"not_json", "not_utf8"}

\* C10: a cache file whose content is not parseable JSON is treated as an
\* absent cache: loading it gives an empty cache_data, is_cache_valid is
\* false, and get_metrics, with a sprint folder existing, recomputes and
\* replaces the file by a well-formed record without raising.
C10_CorruptCacheIsAbsent ==
    [][call'.op = "get_metrics" /\ NotParseableJson
          /\ (\E n \in FolderNames : fs[n].exists) =>
             /\ load_cache(cacheFile) = [raised |-> FALSE, cache_data |-> <<>>]
             /\ ~is_cache_valid(load_cache(cacheFile).cache_data,
                                calculate_all_checksums(fs, scan_sprint_folders(fs)))
             /\ call'.path = "recomputed"
             /\ ret' # None
             /\ cacheFile'.kind = "json"]_vars

\* The sum of f[x] over the x of S.
RECURSIVE SetSum(_, _)
SetSum(S, f) ==
    IF S = {} THEN 0
    ELSE LET x == CHOOSE y \in S : TRUE IN f[x] + SetSum(S \ {x}, f)

\* C11: no ratio or mean of the calculator fails on a denominator of 0: on
\* every non-empty list of SprintData calculate_all_metrics returns a
\* complete metrics tree and does not raise, also for 4 or more sprints of
\* which the older or the recent half has no sprint with completed_tasks > 0.
C11_MetricsNeverRaise ==
    mc_call = "calculate_all_metrics" =>
        /\ ~mc_ret.raised
        /\ {"counts", "tasks", "quality", "trends", "summary"}
              \subseteq DOMAIN mc_ret.value

\* The positions of mc_sprints, and those of its completed sprints.
AllSprints == 1..Len(mc_sprints)

CompletedSprints == {k \in AllSprints : mc_sprints[k].status \in {"completed", "Completed"}}

TotalOf == [k \in AllSprints |-> mc_sprints[k].total_tasks]

DoneOf == [k \in AllSprints |-> mc_sprints[k].completed_tasks]

\* The quotient q is a / b.
IsQuotient(q, a, b) == q.num * b = a * q.den

\* C17: calculate_task_metrics sums total, completed and pending tasks and
\* takes task_completion_rate over all sprints, while
\* average_tasks_per_sprint and sprint_velocity are averages over the
\* sprints whose status is 'completed' in any letter case, and 0 when there
\* is none: the tasks of the other sprints do not enter sprint_velocity.
C17_TaskMetrics ==
    mc_call = "calculate_task_metrics" =>
        LET m == mc_ret.value IN
        /\ m.total_tasks = SetSum(AllSprints, TotalOf)
        /\ m.completed_tasks = SetSum(AllSprints, DoneOf)
        /\ m.pending_tasks = m.total_tasks - m.completed_tasks
        /\ IF m.total_tasks = 0 THEN m.task_completion_rate.num = 0
           ELSE IsQuotient(m.task_completion_rate, 100 * m.completed_tasks, m.total_tasks)
        /\ IF CompletedSprints = {}
           THEN m.average_tasks_per_sprint.num = 0 /\ m.sprint_velocity.num = 0
           ELSE /\ IsQuotient(m.average_tasks_per_sprint,
                              SetSum(CompletedSprints, TotalOf),
                              Cardinality(CompletedSprints))
                /\ IsQuotient(m.sprint_velocity,
                              SetSum(CompletedSprints, DoneOf),
                              Cardinality(CompletedSprints))

C17_Witness ==
    /\ mc_call = "calculate_task_metrics"
    /\ \E k \in CompletedSprints : mc_sprints[k].status = "Completed"
    /\ \E k \in AllSprints \ CompletedSprints : mc_sprints[k].completed_tasks > 0
    /\ mc_ret.value.sprint_velocity.num > 0

\* The list sorted by created_date (stably), as positions of mc_sprints, and
\* its older and recent halves.
ByDate ==
    CHOOSE order \in [AllSprints -> AllSprints] :
        /\ \A j, k \in AllSprints : j # k => order[j] # order[k]
        /\ \A j, k \in AllSprints : j < k =>
              \/ mc_sprints[order[j]].created_rank < mc_sprints[order[k]].created_rank
              \/ /\ mc_sprints[order[j]].created_rank = mc_sprints[order[k]].created_rank
                 /\ order[j] < order[k]

OlderHalf == {ByDate[k] : k \in 1..(Len(mc_sprints) \div 2)}

RecentHalf == AllSprints \ OlderHalf

WithDone(S) == {k \in S : mc_sprints[k].completed_tasks > 0}

\* The label for recent = rn/rd and older = on/od.
Classified(label, rn, rd, on, od) ==
    /\ label = "improving" <=> 10 * rn * od > 11 * on * rd
    /\ label = "declining" <=> 10 * rn * od < 9 * on * rd
    /\ label \in {"improving", "declining", "stable"}

\* C18: with fewer than 4 sprints velocity_trend and completion_rate_trend
\* are 'insufficient_data'; otherwise the list sorted by created_date is
\* split at floor(n/2) and each trend is 'improving' iff recent > older*1.1,
\* 'declining' iff recent < older*0.9, else 'stable', the values compared
\* for the velocity being the means of completed_tasks over the sprints of
\* each half with completed_tasks > 0.
C18_TrendClassification ==
    mc_call = "calculate_trends" =>
        /\ ~mc_ret.raised
        /\ LET t == mc_ret.value IN
           IF Len(mc_sprints) < 4
           THEN /\ t.velocity_trend = "insufficient_data"
                /\ t.completion_rate_trend = "insufficient_data"
           ELSE /\ Classified(t.velocity_trend,
                              SetSum(WithDone(RecentHalf), DoneOf),
                              Cardinality(WithDone(RecentHalf)),
                              SetSum(WithDone(OlderHalf), DoneOf),
                              Cardinality(WithDone(OlderHalf)))
                /\ Classified(t.completion_rate_trend,
                              Cardinality(RecentHalf \cap CompletedSprints),
                              Cardinality(RecentHalf),
                              Cardinality(OlderHalf \cap CompletedSprints),
                              Cardinality(OlderHalf))

\* The abandoned sprints of mc_sprints, and for each sprint how many of
\* plan.md, implementation.md and retrospective.md it has.
AbandonedSprints == {k \in AllSprints : mc_sprints[k].status = "abandoned"}

ProcessFilesOf ==
    [k \in AllSprints |->
        (IF mc_sprints[k].has_planning THEN 1 ELSE 0)
        + (IF mc_sprints[k].has_implementation THEN 1 ELSE 0)
        + (IF mc_sprints[k].has_retrospective THEN 1 ELSE 0)]

\* completion_rate * 0.4 + task_completion_rate * 0.3
\* + process_adoption_rate * 0.2 + (100 - abandonment_rate) * 0.1 of
\* mc_sprints, truncated: with n sprints, c completed, a abandoned, p process
\* files, and ct of tt tasks done, the sum is
\* 40 c / n + 30 ct / tt + 20 p / (3 n) + 10 (n - a) / n.
TruncatedWeightedSum ==
    LET n == Len(mc_sprints)
        c == Cardinality(CompletedSprints)
        a == Cardinality(AbandonedSprints)
        p == SetSum(AllSprints, ProcessFilesOf)
        tt == SetSum(AllSprints, TotalOf)
        ct == SetSum(AllSprints, DoneOf)
    IN IF tt > 0
       THEN (120 * c * tt + 90 * ct * n + 20 * p * tt + 30 * (n - a) * tt)
                \div (3 * n * tt)
       ELSE (120 * c + 20 * p + 30 * (n - a)) \div (3 * n)

AllAtBest ==
    /\ CompletedSprints = AllSprints
    /\ SetSum(AllSprints, TotalOf) > 0
    /\ SetSum(AllSprints, DoneOf) = SetSum(AllSprints, TotalOf)
    /\ \A k \in AllSprints : ProcessFilesOf[k] = 3

\* C16: for every non-empty list of sprints with completed_tasks <=
\* total_tasks the health_score of the summary is the integer truncation of
\* completion_rate*0.4 + task_completion_rate*0.3 + process_adoption_rate*0.2
\* + (100 - abandonment_rate)*0.1, lies in 0..100, and is 100 when all sprints
\* are completed, all tasks done and all process files present.
C16_HealthScore ==
    (/\ mc_call = "calculate_summary"
     /\ \A k \in AllSprints : DoneOf[k] <= TotalOf[k]) =>
        /\ mc_ret.value.health_score = TruncatedWeightedSum
        /\ mc_ret.value.health_score \in 0..100
        /\ AllAtBest => mc_ret.value.health_score = 100

\* The positions of the timestamp headings of md_lines, the position of the
\* j-th of them, and the lines between a heading and the next one.
HeadingPositions ==
    {k \in 1..Len(md_lines) : md_lines[k].cls = "timestamp_heading"}

NthHeading(j) ==
    CHOOSE k \in HeadingPositions :
        Cardinality({m \in HeadingPositions : m < k}) = j - 1

BlockOf(k) ==
    {m \in (k + 1)..Len(md_lines) :
        \A h \in HeadingPositions : h > k => m < h}

\* The bullets of an entry, of all four lists.
ItemsOf(entry) ==
    entry.tasks_addressed \o entry.decisions \o entry.notes \o entry.changes

BulletsIn(block) == {m \in block : md_lines[m].cls = "bullet"}

\* C13: parse_implementation_logs without a limit returns one entry per
\* timestamp heading, in the reverse of document order, and each entry
\* carries only bullets of the lines between its own heading and the next
\* timestamp heading.
C13_LogsReversedPerHeading ==
    (md_call.op = "parse_implementation_logs" /\ md_call.limit = None) =>
        /\ Len(md_ret) = Cardinality(HeadingPositions)
        /\ \A j \in 1..Len(md_ret) :
              LET k == NthHeading(j)
                  entry == md_ret[Len(md_ret) + 1 - j]
              IN /\ entry.timestamp = md_lines[k].timestamp
                 /\ entry.stride_name = md_lines[k].stride_name
                 /\ Len(ItemsOf(entry)) <= Cardinality(BulletsIn(BlockOf(k)))
                 /\ \A x \in 1..Len(ItemsOf(entry)) :
                       \E m \in BulletsIn(BlockOf(k)) :
                           md_lines[m].text = ItemsOf(entry)[x]

\* Two entries of different timestamps are returned, the one of the first
\* heading with a bullet, the one of the second heading without.
C13_Witness ==
    /\ md_call.op = "parse_implementation_logs"
    /\ md_call.limit = None
    /\ Len(md_ret) = 2
    /\ md_ret[1].timestamp # md_ret[2].timestamp
    /\ ItemsOf(md_ret[2]) # <<>>
    /\ ItemsOf(md_ret[1]) = <<>>

\* C14: with a limit n >= 0, 0 included, the result has at most n entries
\* and is the first n entries of the result without a limit.
C14_LimitTruncates ==
    (md_call.op = "parse_implementation_logs" /\ md_call.limit # None) =>
        LET n == md_call.limit[1]
            unlimited == parse_implementation_logs(md_lines, None)
        IN /\ Len(md_ret) <= n
           /\ md_ret = Slice(unlimited, n)

\* The lines of md_lines that begin the heading asked for, and those that
\* begin with the prefix of its level and a space.
TargetPositions ==
    {k \in 1..Len(md_lines) :
        StartsWithTarget(md_lines[k], md_call.heading, md_call.level)}

SameLevelPositions ==
    {k \in 1..Len(md_lines) : ~md_lines[k].indent /\ md_lines[k].hashes = md_call.level}

\* The lines after the first occurrence of the heading, up to the next line
\* of the same level, a second occurrence of the heading included.
FirstSection ==
    LET first == CHOOSE k \in TargetPositions : \A m \in TargetPositions : k <= m
        stops == {k \in SameLevelPositions : k > first}
        stop == IF stops = {} THEN Len(md_lines) + 1
                ELSE CHOOSE k \in stops : \A m \in stops : k <= m
    IN SubSeq(md_lines, first + 1, stop - 1)

\* C15: extract_section returns the stripped lines after the first line that
\* prefix-matches the heading, up to the next line that starts with the same
\* level prefix and a space, also when that line is a second occurrence of
\* the heading; deeper headings do not stop it; it returns "" when the
\* heading is absent.
C15_FirstOccurrenceOnly ==
    md_call.op = "extract_section" =>
        IF TargetPositions = {} THEN md_ret = <<>>
        ELSE md_ret = Strip(FirstSection)

\* C12: list_sprints returns normally, whatever the point of its scan at
\* which another process removes a sprint directory: it raises no error.
C12_ListSprintsToleratesRemoval ==
    rc_pc = "done" => ~rc_ret.raised

\* C20: clear_analytics_cache deletes the cache file and empties the cache:
\* after it the loaded cache_data is empty, is_cache_valid is false for every
\* checksum map, get_cached_metrics and get_cache_info give None, and a
\* get_metrics that follows it and finds a sprint folder recomputes and
\* writes a record; with no cache file the call changes nothing and raises
\* nothing.
C20_ClearEmptiesCache ==
    [][/\ call'.op = "clear_analytics_cache" =>
             /\ call'.path = "cleared"
             /\ cacheFile' = AbsentFile
             /\ load_cache(cacheFile') = [raised |-> FALSE, cache_data |-> <<>>]
             /\ \A m \in Dicts(IdsUsed, Checksums) :
                   ~is_cache_valid(load_cache(cacheFile').cache_data, m)
             /\ get_cached_metrics(load_cache(cacheFile').cache_data) = None
             /\ get_cache_info(cacheFile').ret = None
       /\ (/\ call.op = "clear_analytics_cache"
           /\ call'.op = "get_metrics"
           /\ scan_sprint_folders(fs) # <<>>)
          => /\ call'.path = "recomputed"
             /\ call'.saved
             /\ cacheFile'.kind = "json"]_vars

\* The calls of the core's interface.
CoreCalls ==
    {"get_metrics", "list_sprints", "get_sprint", "get_cache_info",
     "clear_analytics_cache"}

\* C19: no call of get_metrics, list_sprints, get_sprint, get_cache_info or
\* clear_analytics_cache creates, modifies or deletes a sprint directory or
\* a sprint file; the cache file is all they write or delete.
C19_SprintFilesOnlyRead ==
    [][call'.op \in CoreCalls => fs' = fs]_vars

\* get_metrics has parsed a sprint folder without project.md and written
\* the cache file.
C19_Witness ==
    /\ call.op = "get_metrics"
    /\ call.parsed
    /\ call.saved
    /\ cacheFile.kind = "json"
    /\ \E n \in FolderNames :
          /\ StartsWithSprintDash(n)
          /\ fs[n].exists
          /\ ~FileExists(fs[n], PROJECT_MD)

\* C21: the parsing methods keep no hidden state: when parse_checkboxes,
\* parse_strides, parse_implementation_logs or group_checkboxes_by_category
\* is called again on the text of the first call, whatever calls on other
\* texts were made in between, it returns a result equal to the first one;
\* no task or bullet of another call is in it.
C21_SameTextSameResult == ps_again # None => ps_again[1] = ps_first[1].value

\* A plan with a task, or a log with a bullet, parsed a second time after a
\* call of another method or on another text.
C21_Witness ==
    /\ ps_again # None /\ ps_other
    /\ ps_first[1].method \in {"parse_strides", "parse_implementation_logs"}
    /\ \E k \in 1..Len(ps_again[1]) :
          \E f \in DOMAIN ps_again[1][k] \cap ListAttributes :
              ps_again[1][k][f] # <<>>

\* The positions of the stride headings of the plan, the j-th of them, the
\* lines of a stride (those after its heading and before the next heading),
\* and the subsection a line of a stride lies in: the one opened by the last
\* marker before it, none when a rule or a '###' line came after that marker.
StrideHeadingPositions ==
    {k \in 1..Len(lines) : lines[k].cls = "stride_heading"}

NthStrideHeading(j) ==
    CHOOSE k \in StrideHeadingPositions :
        Cardinality({m \in StrideHeadingPositions : m < k}) = j - 1

LinesOfStride(k) ==
    {m \in (k + 1)..Len(lines) :
        \A h \in StrideHeadingPositions : h > k => m < h}

Markers == {"purpose_marker", "tasks_marker", "completion_marker"}

Closers == {"rule", "h3_other", "h3_with_stride_word"}

InSubsection(k, m, marker) ==
    \E o \in LinesOfStride(k) :
        /\ o < m
        /\ lines[o].cls = marker
        /\ \A x \in (o + 1)..m : lines[x].cls \notin Markers \cup Closers

\* The lines of the stride headed at line k that lie in the subsection of
\* the marker, in document order.
ContentOfStride(k, marker, classes) ==
    LET S == {m \in LinesOfStride(k) :
                 lines[m].cls \in classes /\ InSubsection(k, m, marker)}
    IN SortedBy(S, [m \in S |-> m])

C29_NullIffRollupComplete ==
    pcProgress = "read" =>
        /\ currentStrideRet = None <=> progress.completed_tasks = progress.total_tasks
        /\ currentStrideRet # None =>
              /\ \E k \in 1..Len(progress.strides) :
                    progress.strides[k] = currentStrideRet[1]
              /\ \E t \in 1..Len(currentStrideRet[1].tasks) :
                    ~currentStrideRet[1].tasks[t]

\* All tasks are checked, one stride has no task, and no stride is current.
C29_Witness ==
    /\ pcProgress = "read"
    /\ currentStrideRet = None
    /\ progress.total_tasks > 0
    /\ \E k \in 1..Len(progress.strides) : progress.strides[k].tasks = <<>>

\* The lines of the 'Acceptance Criteria' section of the proposal.md of
\* sm_dir: those after the first level-2 heading that begins with that text
\* and before the next level-2 heading; and the checkbox lines among them.
CriteriaSection ==
    LET proposal == sm_dir.files[FILE_PROPOSAL].lines
        targets == {k \in 1..Len(proposal) :
                       StartsWithTarget(proposal[k], "Acceptance Criteria", 2)}
    IN IF targets = {} THEN {}
       ELSE LET first == CHOOSE k \in targets : \A m \in targets : k <= m
            IN {k \in (first + 1)..Len(proposal) :
                   \A h \in (first + 1)..k : proposal[h].hashes # 2}

CriteriaLines ==
    IF sm_dir.files[FILE_PROPOSAL].kind # "text" THEN {}
    ELSE {k \in CriteriaSection :
             sm_dir.files[FILE_PROPOSAL].lines[k].cls = "checkbox"}

\* C23: the SprintProgress get_sprint resolves for a sprint directory has
\* total_tasks and completed_tasks equal to the sums over its strides, with
\* 0 <= completed_tasks <= total_tasks and completion_percentage =
\* completed / total * 100, or 0 when total is 0; the acceptance-criteria
\* counts are those of the checkboxes of proposal.md's 'Acceptance Criteria'
\* section only; without plan.md or proposal.md the counts are zero and the
\* lists empty.
C23_ProgressRollups ==
    (sm_call.op = "get_sprint" /\ sm_call.include_progress /\ sm_ret # None) =>
        LET p == sm_ret[1].progress[1]
            K == 1..Len(p.strides)
            proposal == sm_dir.files[FILE_PROPOSAL]
        IN /\ p.total_tasks = SetSum(K, [k \in K |-> Len(p.strides[k].tasks)])
           /\ p.completed_tasks =
                 SetSum(K, [k \in K |->
                     Cardinality({t \in 1..Len(p.strides[k].tasks) :
                                     p.strides[k].tasks[t]})])
           /\ 0 <= p.completed_tasks /\ p.completed_tasks <= p.total_tasks
           /\ p.completion_percentage =
                 (IF p.total_tasks = 0 THEN Ratio(0, 1)
                  ELSE Ratio(100 * p.completed_tasks, p.total_tasks))
           /\ p.acceptance_criteria_total = Cardinality(CriteriaLines)
           /\ p.acceptance_criteria_completed =
                 Cardinality({k \in CriteriaLines : proposal.lines[k].checked})
           /\ sm_dir.files[FILE_PLAN].kind = "absent" =>
                 p.strides = <<>> /\ p.total_tasks = 0 /\ p.completed_tasks = 0
           /\ proposal.kind = "absent" =>
                 /\ p.acceptance_criteria_total = 0
                 /\ sm_ret[1].acceptance_criteria = <<>>

\* The timestamps of the entries of the implementation.md of sm_dir, in
\* document order.
EntryStamps ==
    LET implementation == sm_dir.files[FILE_IMPLEMENTATION] IN
    IF implementation.kind # "text" THEN <<>>
    ELSE LET S == {k \in 1..Len(implementation.lines) :
                      implementation.lines[k].cls = "timestamp_heading"}
             positions == SortedBy(S, [k \in S |-> k])
         IN [j \in 1..Len(positions) |-> implementation.lines[positions[j]].timestamp]

\* C24: get_sprint returns null exactly when the sprint path does not exist
\* or is not a directory; with include_progress the Sprint carries a
\* progress, the acceptance criteria, and as recent logs the last 5 entries
\* of implementation.md (all of them when there are fewer), the most recent
\* first; without include_progress the progress is null and both lists are
\* empty.
C24_GetSprintResult ==
    sm_call.op = "get_sprint" =>
        /\ sm_ret = None <=> sm_dir.kind # "dir"
        /\ (sm_ret # None /\ sm_call.include_progress) =>
              LET n == Len(EntryStamps)
                  logs == sm_ret[1].recent_logs
              IN /\ sm_ret[1].progress # None
                 /\ Len(sm_ret[1].acceptance_criteria) =
                       sm_ret[1].progress[1].acceptance_criteria_total
                 /\ Len(logs) = (IF n < 5 THEN n ELSE 5)
                 /\ \A j \in 1..Len(logs) : logs[j].timestamp = EntryStamps[n + 1 - j]
        /\ (sm_ret # None /\ ~sm_call.include_progress) =>
              /\ sm_ret[1].progress = None
              /\ sm_ret[1].acceptance_criteria = <<>>
              /\ sm_ret[1].recent_logs = <<>>

\* A Sprint returned with the 5 last of more than 5 entries.
C24_Witness ==
    /\ sm_call.op = "get_sprint"
    /\ sm_call.include_progress
    /\ sm_ret # None
    /\ Len(EntryStamps) > 5
    /\ Len(sm_ret[1].recent_logs) = 5
    /\ sm_ret[1].recent_logs[1].timestamp = EntryStamps[Len(EntryStamps)]

\* The sprints of mc_sprints with a duration > 0, and the duration of one.
WithDuration ==
    {k \in 1..Len(mc_sprints) :
        mc_sprints[k].duration_days # None /\ mc_sprints[k].duration_days[1] > 0}

DaysOf(k) == mc_sprints[k].duration_days[1]

FirstOf(S) == CHOOSE k \in S : \A m \in S : k <= m

\* C25: calculate_duration_metrics considers the sprints with
\* duration_days > 0 only; each of them is counted in exactly one of the
\* buckets d <= 3, 3 < d <= 7 and d > 7, so the three counts add up to
\* their number; fastest_sprint and slowest_sprint are the ids of the first
\* sprint in input order with the minimum and with the maximum duration;
\* without such a sprint has_duration_data is false and the fields are 0.
C25_DurationBuckets ==
    mc_call = "calculate_duration_metrics" =>
        LET m == mc_ret.value IN
        IF WithDuration = {}
        THEN /\ ~m.has_duration_data
             /\ m.average_duration = Ratio(0, 1) /\ m.median_duration = Ratio(0, 1)
             /\ m.min_duration = 0 /\ m.max_duration = 0
        ELSE /\ m.has_duration_data
             /\ m.durations_under_3_days =
                   Cardinality({k \in WithDuration : DaysOf(k) <= 3})
             /\ m.durations_3_to_7_days =
                   Cardinality({k \in WithDuration : 3 < DaysOf(k) /\ DaysOf(k) <= 7})
             /\ m.durations_over_7_days =
                   Cardinality({k \in WithDuration : DaysOf(k) > 7})
             /\ m.durations_under_3_days + m.durations_3_to_7_days
                   + m.durations_over_7_days = Cardinality(WithDuration)
             /\ m.fastest_sprint =
                   mc_sprints[FirstOf({k \in WithDuration :
                       \A o \in WithDuration : DaysOf(k) <= DaysOf(o)})].sprint_id
             /\ m.slowest_sprint =
                   mc_sprints[FirstOf({k \in WithDuration :
                       \A o \in WithDuration : DaysOf(o) <= DaysOf(k)})].sprint_id

\* Two sprints tie for the shortest duration, the first of them is the
\* fastest; a sprint without a positive duration is left out.
C25_Witness ==
    /\ mc_call = "calculate_duration_metrics"
    /\ Cardinality(WithDuration) = 2
    /\ Len(mc_sprints) = 3
    /\ \A k \in WithDuration : DaysOf(k) = 3
    /\ mc_ret.value.fastest_sprint = mc_sprints[FirstOf(WithDuration)].sprint_id
    /\ mc_ret.value.durations_under_3_days = 2

\* C26: the metrics get_metrics returns from the cache equal, in the counts,
\* the task metrics and the quality metrics, what a recomputation over the
\* sprint files as they are would give; so for sprints_with_design and
\* sprints_with_proposal after a design.md or proposal.md was added to or
\* removed from a sprint since the cache was saved.
C26_CachedEqualsRecomputed ==
    (call.op = "get_metrics" /\ call.path = "cached") =>
        LET sprints == parse_all_sprints(fs) IN
        /\ ret[1].counts = calculate_counts(sprints)
        /\ ret[1].tasks = calculate_task_metrics(sprints)
        /\ ret[1].quality = calculate_quality_metrics(sprints)


\* C28: when get_metrics computes (it does not answer from the cache), the
\* number of sprints it computes over, counts.total_sprints, is the number of
\* sprints list_sprints returns for the same subdirectories, ids such as
\* SPRINT-AB12C included, and it returns the "no data" structure only when
\* list_sprints returns nothing.
C28_SameSprintsAsListSprints ==
    (call.op = "get_metrics" /\ ret # None /\ call.path # "cached") =>
        /\ ret[1].counts.total_sprints = Cardinality(list_sprints)
        /\ call.path = "no_sprints" => list_sprints = {}


\* C30: with a cache file of well-formed JSON that is not a cache record,
\* get_metrics, get_cache_info and clear_analytics_cache do not raise, and
\* get_metrics does what it does without a cache file: it returns the same
\* metrics and, when it computes, writes a cache record over the file.
C30_NonRecordCacheHandled ==
    [][(cacheFile \in NonRecordFiles
          /\ call'.op \in {"get_metrics", "get_cache_info", "clear_analytics_cache"}) =>
         /\ call'.path \notin Exceptions
         /\ call'.op = "get_metrics" =>
               LET o == get_metrics(fs, AbsentFile, now, call'.args.use_cache,
                                    call'.args.force_refresh) IN
               /\ ret' = o.ret
               /\ call'.path = o.path
               /\ o.saved => cacheFile' = o.file]_vars


\* C27: every cache record get_metrics writes has sprint_count equal to its
\* metrics' counts.total_sprints, and the keys of the sprint_checksums an
\* invocation is about to save are the sprints its metrics were computed
\* from, whatever the interleaving with folder additions and removals and
\* with another get_metrics.
C27_SavedRecordConsistent ==
    /\ gm_cache.kind = "json" =>
          gm_cache.value.sprint_count = gm_cache.value.metrics.counts.total_sprints
    /\ \A p \in DOMAIN gm_proc :
          gm_proc[p].pc = "save" =>
             DOMAIN gm_proc[p].current_checksums
                = {gm_proc[p].sprint_data[k].sprint_id :
                      k \in 1..Len(gm_proc[p].sprint_data)}
====
